---- MODULE Spec2Model ----
(***************************************************************************)
(* Ad-watch reward session engine of reklampaybot.                         *)
(*                                                                         *)
(* The repository holds five builds of the same service.  Each build has   *)
(* its own /api/ad/start and /api/ad/complete handlers:                    *)
(*   "lock"    src/unnamed/part_002  row lock (SELECT .. FOR UPDATE)       *)
(*   "status"  src/unnamed/part_001  status column, read/credit/mark       *)
(*   "cond"    src/index.js:440-     daily_stats, conditional UPDATE       *)
(*   "try"     src/index.js:1-438    schema-try completeAdSession          *)
(*   "elapsed" src/unnamed/part_000  elapsed-time completeAdSession        *)
(* The variable `variant` says which build is deployed; it never changes.  *)
(*                                                                         *)
(* Every awaited store statement of a handler is one atomic step of the    *)
(* request that runs it; requests interleave between statements.           *)
(* Time is counted in tenths of a second, money in 1/10000 of a unit.      *)
(***************************************************************************)
EXTENDS Integers, Sequences, FiniteSets

\* ---------------------------------------------------------------- bounds
MaxReqs == 3          \* requests begun in one behaviour
MaxSessions == 2      \* rows of ad_sessions
MaxTime == 146        \* last instant of the store clock (tenths of a second)
MaxDay == 1           \* last UTC day of a behaviour
MaxFaults == 1        \* store statements that fail in one behaviour
StartedAgo == 6       \* tenths of a second a stored session began before 0

\* ------------------------------------------------------ program constants
DAILY_LIMIT == 50             \* sessions per user per day
WATCH_REWARD_TL == 2500       \* 0.25 TL
WATCH_REWARD_DIAMONDS == 2500 \* 0.25 diamonds
AD_SECONDS == 15              \* seconds of the ad that is shown
REFERRAL_AD_PERCENT == 5      \* SETTINGS.referral_ad_percent, in percent
REF_BONUS_RATE == 10          \* getSetting("REF_BONUS_RATE", "0.10"), in percent
REFERRAL_NEW_USER_TL == 180000 \* SETTINGS.referral_new_user_tl: 18 TL
MIN_WITHDRAW_TL == 2500000    \* SETTINGS.min_withdraw_tl: 250 TL
GEM_TO_TL_PERCENT == 25       \* SETTINGS.gem_to_tl_rate, GEM_TO_TL_RATE: 0.25
DIAMOND_TO_TL_PERCENT == 100  \* part_002: const rate = 1.0
LOCK_TOLERANCE == 5           \* 0.5 s
ELAPSED_TOLERANCE == 4        \* 0.4 s

Variants == {"lock", "status", "cond", "try", "elapsed"}
Users == {1, 2}
Calls == {1, 2}
SessionIds == 1..MaxSessions
Days == 0..MaxDay
NULL == 0 - 1
NoRow == 0 - 2

\* Instants the store clock takes: the first one, and the ones around the
\* end of a 15 s watch begun then.
Instants == {t \in 0..MaxTime : t = 0 \/ t >= AD_SECONDS * 10 - 6}

\* The users who watch ads; the other user is a referrer, who may still call
\* complete.
Watchers == {1}

\* Values the daily counter has when the behaviour begins.
InitSeen == {0, DAILY_LIMIT - 1}

VARIABLES
  variant,    \* the build that is deployed
  now,        \* store clock, tenths of a second
  day,        \* current UTC day
  balance,    \* users.balance / balance_tl   [Users -> Int]
  diamonds,   \* users.diamonds               [Users -> Int]
  referred,   \* users.referred_by / ref_by / referrer_tg_id: a user id, 0 for
              \* none (NULL), NoRow when the user has no row
  seen,       \* the daily counter, [Users -> [Days -> Int]], NULL = no row
  sessions,   \* ad_sessions, a sequence; a row's id is its index
  ad,         \* the one row of ads: active, max_clicks (NULL = none), clicks
  calls,      \* the requests in flight, one record per connection slot
  paid,       \* per session id: how many times its reward was credited
  created,    \* [Users -> [Days -> Nat]]: sessions created on that day
  earnings,   \* referral_earnings, a sequence of rows
  nreq,       \* requests begun
  nfail,      \* store statements that failed
  fresh,      \* [Users -> BOOLEAN]: users.created_at is under 5 minutes old
  referrals,  \* the referrals table: pairs <<referrer, referred>>
  diaCol,     \* the users table has a diamonds-equivalent column
  dailyCol,   \* the users table has a daily-counter column
  poolMax,    \* clients the connection pool hands out at one time
  withdrawals \* withdraw_requests / withdrawals, a sequence of rows

vars == <<variant, now, day, balance, diamonds, referred, seen, sessions,
          ad, calls, paid, created, earnings, nreq, nfail, fresh, referrals,
          diaCol, dailyCol, poolMax, withdrawals>>

\* ------------------------------------------------------------ call records
\* pc: the statement the request runs next; tg, sid: the request's tg_id and
\* session_id; t0: transaction start; rd: a value the request has read;
\* d: the day it has read; held: it holds the row lock of sid; pend: the
\* response a rollback is followed by; resp: the response of the slot's last
\* request; late: the session was already completed when the request
\* arrived; ref, pad: the number a /start payload denotes (0: no payload) and
\* whether it is written with leading zeros; amt: the amount of a withdrawal;
\* vip: the vip flag of a start request.
Idle ==
  [pc |-> "idle", kind |-> "none", tg |-> 0, sid |-> 0, late |-> FALSE,
   t0 |-> 0, rd |-> 0, d |-> 0, held |-> FALSE, pend |-> "none",
   resp |-> "none", ref |-> 0, pad |-> FALSE, amt |-> 0, vip |-> FALSE]

Exists(s) == s \in 1..Len(sessions)

\* Requests are served by the free connection slot of lowest number.
FreeSlot(c) ==
  /\ calls[c].pc = "idle"
  /\ \A d \in Calls : d < c => calls[d].pc # "idle"

\* new Pool({ connectionString, ssl }) of part_002: the pool hands out up to
\* max clients at a time; pool.connect() and pool.query() wait while all of
\* them are out.  FullPool: as many requests can be in flight as the pool has
\* clients.  SparePool: fewer requests than clients.
FullPool == Cardinality(Calls)
SparePool == Cardinality(Calls) + 1

\* The statements of part_002 a request runs on a client it has taken with
\* pool.connect(): the complete handler and, after its begin, the convert
\* handler.
ClientPcs ==
  {"lk_select", "lk_now", "lk_flip", "lk_credit", "lk_commit", "lk_rollback",
   "lv_read", "lv_update", "lv_commit"}

ClientsHeld == Cardinality({c \in Calls : calls[c].pc \in ClientPcs})

\* pool.connect() / pool.query() get a client: one is not checked out.
ClientFree == ClientsHeld < poolMax

StartsInFlight == Cardinality({c \in Calls : calls[c].kind = "start"
                                             /\ calls[c].pc # "idle"})

Go(c, rec) == calls' = [calls EXCEPT ![c] = rec]
Step(c, pc) == Go(c, [calls[c] EXCEPT !.pc = pc])
Return(c, r) == Go(c, [Idle EXCEPT !.resp = r, !.late = calls[c].late])

NewSession(u, secs, rtl, rgem) ==
  [tg_id |-> u, seconds |-> secs, started_at |-> now, completed |-> FALSE,
   completed_at |-> NULL, reward_tl |-> rtl, reward_gem |-> rgem]

\* INSERT INTO ad_sessions: the new row, and the count of the day's sessions.
InsertSession(u, row) ==
  /\ sessions' = Append(sessions, row)
  /\ created' = [created EXCEPT ![u][day] = @ + 1]

\* A credit that writes the amounts over the balances: a lost update.
SetBalances(u, tl, gem) ==
  /\ balance' = [balance EXCEPT ![u] = tl]
  /\ diamonds' = [diamonds EXCEPT ![u] = gem]

\* UPDATE users SET balance = balance + tl, diamonds = diamonds + gem.
AddBalances(u, tl, gem) ==
  /\ balance' = [balance EXCEPT ![u] = @ + tl]
  /\ diamonds' = [diamonds EXCEPT ![u] = @ + gem]

\* ------------------------------------------------------------------- Init
Init ==
  /\ variant \in Variants
  /\ now = 0
  /\ day = 0
  /\ balance = [u \in Users |-> 0]
  /\ diamonds = [u \in Users |-> 0]
  /\ referred = [u \in Users |-> IF u = 1 THEN 2 ELSE 0]
  /\ \E n \in InitSeen :
       /\ created = [u \in Users |-> [d \in Days |->
                       IF u = 1 /\ d = 0 THEN n ELSE 0]]
       /\ seen = [u \in Users |-> [d \in Days |->
                    IF d # 0 THEN NULL
                    ELSE IF u = 1 /\ variant # "lock" THEN n ELSE 0]]
  /\ sessions = << >>
  /\ \E m \in IF variant = "status" THEN {NULL, 1} ELSE {NULL} :
       ad = [active |-> TRUE, max_clicks |-> m, clicks |-> 0, is_vip |-> FALSE]
  /\ calls = [c \in Calls |-> Idle]
  /\ paid = [s \in SessionIds |-> 0]
  /\ earnings = << >>
  /\ nreq = 0
  /\ nfail = 0
  /\ fresh = [u \in Users |-> FALSE]
  /\ referrals = IF variant = "cond" THEN {<<2, 1>>} ELSE {}
  /\ diaCol = TRUE
  /\ dailyCol = TRUE
  /\ poolMax = SparePool
  /\ withdrawals = << >>

\* The store clock advances.
Tick ==
  /\ \E t \in Instants : t > now /\ now' = t
  /\ UNCHANGED <<fresh, referrals, diaCol, dailyCol, poolMax, withdrawals, variant, day, balance, diamonds, referred, seen, sessions,
                 ad, calls, paid, created, earnings, nreq, nfail>>

\* Midnight UTC passes.
NewDay ==
  /\ day < MaxDay
  /\ day' = day + 1
  /\ UNCHANGED <<fresh, referrals, diaCol, dailyCol, poolMax, withdrawals, variant, now, balance, diamonds, referred, seen, sessions,
                 ad, calls, paid, created, earnings, nreq, nfail>>

\* ------------------------------------------------- requests reach the server
FirstStartPc ==
  CASE variant = "lock" -> "lk_pick"
    [] variant = "status" -> "st_daily"
    [] variant = "cond" -> "cd_daily"
    [] OTHER -> "tr_daily"

FirstCompletePc ==
  CASE variant = "lock" -> "lk_select"
    [] variant = "status" -> "sc_read"
    [] variant = "cond" -> "cc_flip"
    [] variant = "try" -> "tc_flip"
    [] OTHER -> "ec_select"

\* Boolean(req.body.vip) of part_001; the other builds read no such flag.
VipFlags == IF variant = "status" THEN BOOLEAN ELSE {FALSE}

\* POST /api/ad/start with tg_id = u.
StartBegin(c, u) ==
  /\ FreeSlot(c) /\ nreq < MaxReqs
  /\ Len(sessions) + StartsInFlight < MaxSessions
  /\ \E v \in VipFlags :
       Go(c, [Idle EXCEPT !.pc = FirstStartPc, !.kind = "start", !.tg = u,
                          !.vip = v])
  /\ nreq' = nreq + 1
  /\ UNCHANGED <<fresh, referrals, diaCol, dailyCol, poolMax, withdrawals, variant, now, day, balance, diamonds, referred, seen,
                 sessions, ad, paid, created, earnings, nfail>>

\* POST /api/ad/complete with tg_id = u and session_id = s.  In the row-lock
\* build the handler's first statement is BEGIN, which fixes now().
CompleteBegin(c, u, s) ==
  /\ FreeSlot(c) /\ nreq < MaxReqs
  /\ variant = "lock" => ClientFree
  /\ Go(c, [Idle EXCEPT !.pc = FirstCompletePc, !.kind = "complete",
                        !.tg = u, !.sid = s,
                        !.t0 = IF variant = "lock" THEN now ELSE 0,
                        !.late = (Exists(s) /\ sessions[s].tg_id = u
                                  /\ sessions[s].completed)])
  /\ nreq' = nreq + 1
  /\ UNCHANGED <<fresh, referrals, diaCol, dailyCol, poolMax, withdrawals, variant, now, day, balance, diamonds, referred, seen,
                 sessions, ad, paid, created, earnings, nfail>>

\* ---------------------------------------------------------------------------
\* Build "lock" (src/unnamed/part_002)
\* ---------------------------------------------------------------------------

\* where active=true: the ads table of this build has no click cap and no
\* vip column.
LockEligibleAd == ad.active

\* select * from ads where active=true order by id desc limit 1;
\* if (!ad) return 404 no_ad
LockStartPick(c) ==
  /\ variant = "lock" /\ ClientFree /\ calls[c].pc = "lk_pick"
  /\ IF LockEligibleAd THEN Step(c, "lk_insert") ELSE Return(c, "no_ad")
  /\ UNCHANGED <<fresh, referrals, diaCol, dailyCol, poolMax, withdrawals, variant, now, day, balance, diamonds, referred, seen,
                 sessions, ad, paid, created, earnings, nreq, nfail>>

\* Math.max(3, Math.min(300, parseInt(ad.seconds, 10) || 10))
ClampSeconds(n) ==
  LET m == IF n = 0 THEN 10 ELSE n
  IN IF m > 300 THEN 300 ELSE IF m < 3 THEN 3 ELSE m

\* insert into ad_sessions (tg_id, ad_id, seconds)
LockStartInsert(c) ==
  /\ variant = "lock" /\ ClientFree /\ calls[c].pc = "lk_insert"
  /\ InsertSession(calls[c].tg,
       NewSession(calls[c].tg, ClampSeconds(AD_SECONDS), 0, 0))
  /\ Return(c, "started")
  /\ UNCHANGED <<fresh, referrals, diaCol, dailyCol, poolMax, withdrawals, variant, now, day, balance, diamonds, referred, seen,
                 ad, paid, earnings, nreq, nfail>>

\* A store whose "for update" takes no lock.
RowLockFreeNoLock(c, s) == TRUE

\* No other connection holds the row lock of session s.
RowLockFree(c, s) ==
  \A d \in Calls \ {c} : ~(calls[d].held /\ calls[d].sid = s)

\* The row check without the "already completed" return.
LockRowCheckNoAlready(u, s) ==
  IF ~Exists(s) THEN "session_not_found"
  ELSE IF sessions[s].tg_id # u THEN "not_your_session"
  ELSE "go"

\* The row check without the ownership test.
LockRowCheckNoOwner(u, s) ==
  IF ~Exists(s) THEN "session_not_found"
  ELSE IF sessions[s].completed THEN "already"
  ELSE "go"

\* What the handler does with the row it has selected.
LockRowCheck(u, s) ==
  IF ~Exists(s) THEN "session_not_found"
  ELSE IF sessions[s].tg_id # u THEN "not_your_session"
  ELSE IF sessions[s].completed THEN "already"
  ELSE "go"

\* select ... from ad_sessions where id=$1 for update, and the three early
\* returns, each of which first awaits a rollback.
LockSelect(c) ==
  LET s == calls[c].sid
      r == LockRowCheck(calls[c].tg, s)
  IN /\ variant = "lock" /\ calls[c].pc = "lk_select"
     /\ Exists(s) => RowLockFree(c, s)
     /\ Go(c, [calls[c] EXCEPT !.held = Exists(s),
                               !.pc = IF r = "go" THEN "lk_now"
                                      ELSE "lk_rollback",
                               !.pend = IF r = "go" THEN "none" ELSE r])
     /\ UNCHANGED <<fresh, referrals, diaCol, dailyCol, poolMax, withdrawals, variant, now, day, balance, diamonds, referred, seen,
                    sessions, ad, paid, created, earnings, nreq, nfail>>

\* elapsed + tolerance < seconds, all in tenths of a second
TooEarly(elapsed, seconds, tolerance) == elapsed + tolerance < seconds * 10

\* select now() as now: the transaction's start time; then the elapsed check.
LockNow(c) ==
  LET s == calls[c].sid
      elapsed == calls[c].t0 - sessions[s].started_at
  IN /\ variant = "lock" /\ calls[c].pc = "lk_now"
     /\ IF TooEarly(elapsed, sessions[s].seconds, LOCK_TOLERANCE)
        THEN Go(c, [calls[c] EXCEPT !.pc = "lk_rollback",
                                    !.pend = "too_early"])
        ELSE Step(c, "lk_flip")
     /\ UNCHANGED <<fresh, referrals, diaCol, dailyCol, poolMax, withdrawals, variant, now, day, balance, diamonds, referred, seen,
                    sessions, ad, paid, created, earnings, nreq, nfail>>

\* update ad_sessions set completed=true, completed_at=now() where id=$1,
\* inside the transaction: visible to others at commit.
LockFlip(c) ==
  /\ variant = "lock" /\ calls[c].pc = "lk_flip"
  /\ Step(c, "lk_credit")
  /\ UNCHANGED <<fresh, referrals, diaCol, dailyCol, poolMax, withdrawals, variant, now, day, balance, diamonds, referred, seen,
                 sessions, ad, paid, created, earnings, nreq, nfail>>

\* creditUser(tg_id, WATCH_REWARD_TL, WATCH_REWARD_DIAMONDS): one UPDATE run
\* through the pool, on a connection of its own, so it commits by itself.
LockCredit(c) ==
  /\ variant = "lock" /\ calls[c].pc = "lk_credit"
  /\ ClientFree
  /\ AddBalances(calls[c].tg, WATCH_REWARD_TL, WATCH_REWARD_DIAMONDS)
  /\ paid' = [paid EXCEPT ![calls[c].sid] = @ + 1]
  /\ Step(c, "lk_commit")
  /\ UNCHANGED <<fresh, referrals, diaCol, dailyCol, poolMax, withdrawals, variant, now, day, referred, seen, sessions, ad,
                 created, earnings, nreq, nfail>>

\* The row after the transaction's UPDATE is committed.
Flipped(row, at) == [row EXCEPT !.completed = TRUE, !.completed_at = at]

\* commit: the flip becomes visible and the row lock is released.
LockCommit(c) ==
  LET s == calls[c].sid
  IN /\ variant = "lock" /\ calls[c].pc = "lk_commit"
     /\ sessions' = [sessions EXCEPT ![s] = Flipped(@, calls[c].t0)]
     /\ Return(c, "ok")
     /\ UNCHANGED <<fresh, referrals, diaCol, dailyCol, poolMax, withdrawals, variant, now, day, balance, diamonds, referred, seen,
                    ad, paid, created, earnings, nreq, nfail>>

\* rollback of an early return: the row lock is released.
LockRollback(c) ==
  /\ variant = "lock" /\ calls[c].pc = "lk_rollback"
  /\ Return(c, calls[c].pend)
  /\ UNCHANGED <<fresh, referrals, diaCol, dailyCol, poolMax, withdrawals, variant, now, day, balance, diamonds, referred, seen,
                 sessions, ad, paid, created, earnings, nreq, nfail>>

\* ---------------------------------------------------------------------------
\* Build "status" (src/unnamed/part_001)
\* ---------------------------------------------------------------------------

\* The limit check with > in place of >=.
LimitReachedStrict(n) == n > DAILY_LIMIT

\* daily.seen >= daily.limit
LimitReached(n) == n >= DAILY_LIMIT

\* The counter row of (u, d): 0 when there is none.
SeenOf(u, d) == IF seen[u][d] = NULL THEN 0 ELSE seen[u][d]

\* getDaily(tg_id): INSERT .. ON CONFLICT DO NOTHING, then SELECT seen; and
\* the limit check of the handler.
StatusStartDaily(c) ==
  LET u == calls[c].tg
      n == SeenOf(u, day)
  IN /\ variant = "status" /\ calls[c].pc = "st_daily"
     /\ seen' = [seen EXCEPT ![u][day] = n]
     /\ IF LimitReached(n) THEN Return(c, "daily_limit")
        ELSE Go(c, [calls[c] EXCEPT !.pc = "st_pick", !.rd = n, !.d = day])
     /\ UNCHANGED <<fresh, referrals, diaCol, dailyCol, poolMax, withdrawals, variant, now, day, balance, diamonds, referred, sessions,
                    ad, paid, created, earnings, nreq, nfail>>

\* The WHERE clause without its test of the click cap.
EligibleAdNoCap(vip) == ad.active /\ ad.is_vip = vip

\* WHERE active=TRUE AND is_vip=$1 AND (max_clicks IS NULL OR clicks < max_clicks)
EligibleAd(vip) ==
  /\ ad.active /\ ad.is_vip = vip
  /\ (ad.max_clicks = NULL \/ ad.clicks < ad.max_clicks)

\* SELECT * FROM ads WHERE ... ORDER BY RANDOM() LIMIT 1
StatusStartPick(c) ==
  /\ variant = "status" /\ calls[c].pc = "st_pick"
  /\ IF EligibleAd(calls[c].vip) THEN Step(c, "st_insert")
     ELSE Return(c, "no_ads")
  /\ UNCHANGED <<fresh, referrals, diaCol, dailyCol, poolMax, withdrawals, variant, now, day, balance, diamonds, referred, seen,
                 sessions, ad, paid, created, earnings, nreq, nfail>>

\* INSERT INTO ad_sessions (session_id, tg_id, ad_id): the table of this build
\* has no seconds and no reward column.
StatusStartInsert(c) ==
  /\ variant = "status" /\ calls[c].pc = "st_insert"
  /\ InsertSession(calls[c].tg, NewSession(calls[c].tg, NULL, NULL, NULL))
  /\ Step(c, "st_bump")
  /\ UNCHANGED <<fresh, referrals, diaCol, dailyCol, poolMax, withdrawals, variant, now, day, balance, diamonds, referred, seen,
                 ad, paid, earnings, nreq, nfail>>

\* UPDATE daily_views SET seen = seen + 1 WHERE tg_id=$1 AND day=$2
StatusStartBump(c) ==
  LET u == calls[c].tg
      d == calls[c].d
  IN /\ variant = "status" /\ calls[c].pc = "st_bump"
     /\ seen' = [seen EXCEPT ![u][d] = IF @ = NULL THEN NULL ELSE @ + 1]
     /\ Return(c, "started")
     /\ UNCHANGED <<fresh, referrals, diaCol, dailyCol, poolMax, withdrawals, variant, now, day, balance, diamonds, referred, sessions,
                    ad, paid, created, earnings, nreq, nfail>>

\* What the handler does with the result of its SELECT .. WHERE session_id=$1
\* AND tg_id=$2.
StatusRowCheck(u, s) ==
  IF ~Exists(s) \/ sessions[s].tg_id # u THEN "invalid_session"
  ELSE IF sessions[s].completed THEN "ok_zero"
  ELSE "go"

\* SELECT s.session_id, s.status, s.ad_id, a.reward_tl, a.reward_gem ...
StatusRead(c) ==
  LET r == StatusRowCheck(calls[c].tg, calls[c].sid)
  IN /\ variant = "status" /\ calls[c].pc = "sc_read"
     /\ IF r = "go" THEN Step(c, "sc_credit") ELSE Return(c, r)
     /\ UNCHANGED <<fresh, referrals, diaCol, dailyCol, poolMax, withdrawals, variant, now, day, balance, diamonds, referred, seen,
                    sessions, ad, paid, created, earnings, nreq, nfail>>

\* UPDATE users SET balance = balance + $2, diamonds = diamonds + $3
StatusCredit(c) ==
  /\ variant = "status" /\ calls[c].pc = "sc_credit"
  /\ AddBalances(calls[c].tg, WATCH_REWARD_TL, WATCH_REWARD_DIAMONDS)
  /\ paid' = [paid EXCEPT ![calls[c].sid] = @ + 1]
  /\ Step(c, "sc_refread")
  /\ UNCHANGED <<fresh, referrals, diaCol, dailyCol, poolMax, withdrawals, variant, now, day, referred, seen, sessions, ad, created,
                 earnings, nreq, nfail>>

\* Number(x.toFixed(2)) of an amount in 1/10000: the nearest hundredth.
ToFixed2(x) == ((x + 50) \div 100) * 100

\* Number((reward_tl * SETTINGS.referral_ad_percent).toFixed(2))
StatusBonus == ToFixed2((WATCH_REWARD_TL * REFERRAL_AD_PERCENT) \div 100)

\* SELECT referred_by FROM users WHERE tg_id=$1
StatusRefRead(c) ==
  LET ref == referred[calls[c].tg]
  IN /\ variant = "status" /\ calls[c].pc = "sc_refread"
     /\ IF ref # 0 /\ StatusBonus > 0
        THEN Go(c, [calls[c] EXCEPT !.pc = "sc_refcredit", !.rd = ref])
        ELSE Step(c, "sc_mark")
     /\ UNCHANGED <<fresh, referrals, diaCol, dailyCol, poolMax, withdrawals, variant, now, day, balance, diamonds, referred, seen,
                    sessions, ad, paid, created, earnings, nreq, nfail>>

\* UPDATE users SET balance = balance + $2 WHERE tg_id=$1 (the referrer)
StatusRefCredit(c) ==
  /\ variant = "status" /\ calls[c].pc = "sc_refcredit"
  /\ balance' = [balance EXCEPT ![calls[c].rd] = @ + StatusBonus]
  /\ Go(c, [calls[c] EXCEPT !.pc = "sc_mark", !.rd = 0])
  /\ UNCHANGED <<fresh, referrals, diaCol, dailyCol, poolMax, withdrawals, variant, now, day, diamonds, referred, seen, sessions, ad,
                 paid, created, earnings, nreq, nfail>>

\* UPDATE ad_sessions SET status='completed', completed_at=NOW()
\* WHERE session_id=$1
StatusMark(c) ==
  LET s == calls[c].sid
  IN /\ variant = "status" /\ calls[c].pc = "sc_mark"
     /\ sessions' = [sessions EXCEPT ![s] = Flipped(@, now)]
     /\ Step(c, "sc_click")
     /\ UNCHANGED <<fresh, referrals, diaCol, dailyCol, poolMax, withdrawals, variant, now, day, balance, diamonds, referred, seen,
                    ad, paid, created, earnings, nreq, nfail>>

\* UPDATE ads SET clicks = clicks + 1 WHERE id=$1
StatusClick(c) ==
  /\ variant = "status" /\ calls[c].pc = "sc_click"
  /\ ad' = [ad EXCEPT !.clicks = @ + 1]
  /\ Return(c, "ok")
  /\ UNCHANGED <<fresh, referrals, diaCol, dailyCol, poolMax, withdrawals, variant, now, day, balance, diamonds, referred, seen,
                 sessions, paid, created, earnings, nreq, nfail>>

\* ---------------------------------------------------------------------------
\* Build "cond" (src/index.js, second program)
\* ---------------------------------------------------------------------------

\* insert into users .. on conflict do nothing; insert into daily_stats ..
\* on conflict do nothing; select ads_seen; and the limit check.
CondStartDaily(c) ==
  LET u == calls[c].tg
      n == SeenOf(u, day)
  IN /\ variant = "cond" /\ calls[c].pc = "cd_daily"
     /\ seen' = [seen EXCEPT ![u][day] = n]
     /\ IF LimitReached(n) THEN Return(c, "daily_limit")
        ELSE Go(c, [calls[c] EXCEPT !.pc = "cd_insert", !.rd = n])
     /\ UNCHANGED <<fresh, referrals, diaCol, dailyCol, poolMax, withdrawals, variant, now, day, balance, diamonds, referred, sessions,
                    ad, paid, created, earnings, nreq, nfail>>

\* insert into ad_sessions (tg_id, ad_id, seconds, reward_tl, reward_gem,
\* completed) values ($1,$2,$3,$4,$5,false)
CondStartInsert(c) ==
  /\ variant = "cond" /\ calls[c].pc = "cd_insert"
  /\ InsertSession(calls[c].tg,
       NewSession(calls[c].tg, AD_SECONDS, WATCH_REWARD_TL,
                  WATCH_REWARD_DIAMONDS))
  /\ Return(c, "started")
  /\ UNCHANGED <<fresh, referrals, diaCol, dailyCol, poolMax, withdrawals, variant, now, day, balance, diamonds, referred, seen,
                 ad, paid, earnings, nreq, nfail>>

\* A flip that also wants every other session of the user completed.
FlippableAlone(u, s) ==
  /\ Exists(s) /\ sessions[s].tg_id = u /\ ~sessions[s].completed
  /\ \A o \in 1..Len(sessions) :
       (o # s /\ sessions[o].tg_id = u) => sessions[o].completed

\* The rows "where id=$1 and tg_id=$2 and completed=false" matches.
Flippable(u, s) ==
  Exists(s) /\ sessions[s].tg_id = u /\ ~sessions[s].completed

\* update ad_sessions set completed=true, completed_at=now()
\* where id=$1 and tg_id=$2 and completed=false returning ...
CondFlip(c) ==
  LET s == calls[c].sid
  IN /\ variant = "cond" /\ calls[c].pc = "cc_flip"
     /\ IF Flippable(calls[c].tg, s)
        THEN /\ sessions' = [sessions EXCEPT ![s] = Flipped(@, now)]
             /\ Step(c, "cc_bump")
        ELSE /\ Return(c, "invalid_or_already_completed")
             /\ UNCHANGED sessions
     /\ UNCHANGED <<fresh, referrals, diaCol, dailyCol, poolMax, withdrawals, variant, now, day, balance, diamonds, referred, seen,
                    ad, paid, created, earnings, nreq, nfail>>

\* update daily_stats set ads_seen = ads_seen + 1 where tg_id=$1 and day=$2,
\* with day = todayISO() taken now
CondBump(c) ==
  LET u == calls[c].tg
  IN /\ variant = "cond" /\ calls[c].pc = "cc_bump"
     /\ seen' = [seen EXCEPT ![u][day] = IF @ = NULL THEN NULL ELSE @ + 1]
     /\ Step(c, "cc_credit")
     /\ UNCHANGED <<fresh, referrals, diaCol, dailyCol, poolMax, withdrawals, variant, now, day, balance, diamonds, referred, sessions,
                    ad, paid, created, earnings, nreq, nfail>>

\* update users set balance = coalesce(balance,0) + $1, diamonds = ...
CondCredit(c) ==
  LET s == calls[c].sid
  IN /\ variant = "cond" /\ calls[c].pc = "cc_credit"
     /\ AddBalances(calls[c].tg, sessions[s].reward_tl, sessions[s].reward_gem)
     /\ paid' = [paid EXCEPT ![s] = @ + 1]
     /\ Step(c, "cc_refread")
     /\ UNCHANGED <<fresh, referrals, diaCol, dailyCol, poolMax, withdrawals, variant, now, day, referred, seen, sessions, ad, created,
                    earnings, nreq, nfail>>

\* Number((reward_gem * refRate).toFixed(4)), refRate = REF_BONUS_RATE
CondBonus(gem) == (gem * REF_BONUS_RATE) \div 100

\* select ref_by from users where tg_id=$1, and getSetting("REF_BONUS_RATE")
CondRefRead(c) ==
  LET u == calls[c].tg
      refBy == referred[u]
  IN /\ variant = "cond" /\ calls[c].pc = "cc_refread"
     /\ IF refBy # 0 /\ refBy # u
           /\ CondBonus(sessions[calls[c].sid].reward_gem) > 0
        THEN Go(c, [calls[c] EXCEPT !.pc = "cc_refcredit", !.rd = refBy])
        ELSE Return(c, "ok")
     /\ UNCHANGED <<fresh, referrals, diaCol, dailyCol, poolMax, withdrawals, variant, now, day, balance, diamonds, referred, seen,
                    sessions, ad, paid, created, earnings, nreq, nfail>>

\* update users set diamonds = coalesce(diamonds,0) + $1 where tg_id=$2
CondRefCredit(c) ==
  /\ variant = "cond" /\ calls[c].pc = "cc_refcredit"
  /\ diamonds' = [diamonds EXCEPT ![calls[c].rd] =
                    @ + CondBonus(sessions[calls[c].sid].reward_gem)]
  /\ Step(c, "cc_refledger")
  /\ UNCHANGED <<fresh, referrals, diaCol, dailyCol, poolMax, withdrawals, variant, now, day, balance, referred, seen, sessions, ad,
                 paid, created, earnings, nreq, nfail>>

\* insert into referral_earnings (referrer_tg_id, from_tg_id, session_id,
\* gems_amount)
CondRefLedger(c) ==
  /\ variant = "cond" /\ calls[c].pc = "cc_refledger"
  /\ earnings' = Append(earnings,
       [referrer |-> calls[c].rd, from |-> calls[c].tg,
        session |-> calls[c].sid,
        gems |-> CondBonus(sessions[calls[c].sid].reward_gem)])
  /\ Return(c, "ok")
  /\ UNCHANGED <<fresh, referrals, diaCol, dailyCol, poolMax, withdrawals, variant, now, day, balance, diamonds, referred, seen,
                 sessions, ad, paid, created, nreq, nfail>>

\* ---------------------------------------------------------------------------
\* Builds "try" (src/index.js, first program) and "elapsed"
\* (src/unnamed/part_000).  Their /api/ad/start handlers are the same.
\* ---------------------------------------------------------------------------

\* getDailyLimitInfo(tgId): "if (!dailyCol) return { seen: 0, limit }" in
\* part_000; in index.js the SELECT fails with 42703 and the catch block
\* returns the same.
DailySeen(u) == IF dailyCol THEN SeenOf(u, 0) ELSE 0

\* A bumpDailyCounter that runs its UPDATE whatever the columns.
BumpedSeenAlways(u) == [seen EXCEPT ![u][0] = SeenOf(u, 0) + 1]

\* bumpDailyCounter(tgId): "if (!dailyCol) return" in part_000; in index.js
\* every UPDATE it tries fails with 42703 and the loop ends.
BumpedSeen(u) ==
  IF dailyCol THEN [seen EXCEPT ![u][0] = SeenOf(u, 0) + 1] ELSE seen

\* getDailyLimitInfo(tgId): select coalesce(daily_ads_watched,0) from users:
\* a column of the user row, not keyed by day; and the limit check.
TryStartDaily(c) ==
  LET n == DailySeen(calls[c].tg)
  IN /\ variant \in {"try", "elapsed"} /\ calls[c].pc = "tr_daily"
     /\ IF LimitReached(n) THEN Return(c, "daily_limit")
        ELSE Go(c, [calls[c] EXCEPT !.pc = "tr_insert", !.rd = n])
     /\ UNCHANGED <<fresh, referrals, diaCol, dailyCol, poolMax, withdrawals, variant, now, day, balance, diamonds, referred, seen,
                    sessions, ad, paid, created, earnings, nreq, nfail>>

\* createAdSession(tgId, 15, 0.25, 0.25)
TryStartInsert(c) ==
  /\ variant \in {"try", "elapsed"} /\ calls[c].pc = "tr_insert"
  /\ InsertSession(calls[c].tg,
       NewSession(calls[c].tg, AD_SECONDS, WATCH_REWARD_TL,
                  WATCH_REWARD_DIAMONDS))
  /\ Return(c, "started")
  /\ UNCHANGED <<fresh, referrals, diaCol, dailyCol, poolMax, withdrawals, variant, now, day, balance, diamonds, referred, seen,
                 ad, paid, earnings, nreq, nfail>>

\* completeAdSession(sessionId, tgId) of index.js: the conditional UPDATE;
\* null, and so 409, when it matches no row.
TryFlip(c) ==
  LET s == calls[c].sid
  IN /\ variant = "try" /\ calls[c].pc = "tc_flip"
     /\ IF Flippable(calls[c].tg, s)
        THEN /\ sessions' = [sessions EXCEPT ![s] = Flipped(@, now)]
             /\ Step(c, "tc_credit")
        ELSE /\ Return(c, "already_completed_or_not_found")
             /\ UNCHANGED sessions
     /\ UNCHANGED <<fresh, referrals, diaCol, dailyCol, poolMax, withdrawals, variant, now, day, balance, diamonds, referred, seen,
                    ad, paid, created, earnings, nreq, nfail>>

\* Number(rewards.tl) || 0.25
OrDefault(x, dflt) == IF x = 0 \/ x = NULL THEN dflt ELSE x

\* creditUser(tgId, tl, dia) of both builds, for session s.  In index.js
\* each UPDATE it tries sets a TL and a diamonds column in one statement, so
\* on a users table without a diamonds column every try fails with 42703
\* and it returns false; in part_000 "if (!diaCol && dia !== 0) return false"
\* comes before the UPDATE.  Either way nothing is credited, and the handler
\* does not look at the returned value.
CreditUser(u, s, tl, gem) ==
  IF diaCol
  THEN /\ AddBalances(u, tl, gem)
       /\ paid' = [paid EXCEPT ![s] = @ + 1]
  ELSE UNCHANGED <<balance, diamonds, paid>>

\* creditUser(tgId, tlReward, diaReward)
TryCredit(c) ==
  LET s == calls[c].sid
  IN /\ variant = "try" /\ calls[c].pc = "tc_credit"
     /\ CreditUser(calls[c].tg, s,
          OrDefault(sessions[s].reward_tl, WATCH_REWARD_TL),
          OrDefault(sessions[s].reward_gem, WATCH_REWARD_DIAMONDS))
     /\ Step(c, "tc_bump")
     /\ UNCHANGED <<fresh, referrals, diaCol, dailyCol, poolMax, withdrawals, variant, now, day,
                    referred, seen, sessions, ad, created, earnings, nreq,
                    nfail>>

\* bumpDailyCounter(tgId): update users set daily_ads_watched = .. + 1
TryBump(c) ==
  /\ variant = "try" /\ calls[c].pc = "tc_bump"
  /\ seen' = BumpedSeen(calls[c].tg)
  /\ Return(c, "ok")
  /\ UNCHANGED <<fresh, referrals, diaCol, dailyCol, poolMax, withdrawals, variant, now, day, balance, diamonds, referred, sessions,
                 ad, paid, created, earnings, nreq, nfail>>

\* The first half of completeAdSession of part_000: what it returns after
\* its SELECT .. where id=$1 and tg_id=$2, "go" when it goes on to the UPDATE.
ElapsedRowCheck(u, s) ==
  IF ~Exists(s) \/ sessions[s].tg_id # u THEN "not_found"
  ELSE IF sessions[s].completed THEN "already_completed"
  ELSE IF TooEarly(now - sessions[s].started_at, sessions[s].seconds,
                   ELAPSED_TOLERANCE) THEN "too_early"
  ELSE "go"

\* What the handler does with the value completeAdSession returned:
\* "if (!rewards) return 409" tests an object, which is never falsy, so the
\* handler goes on to credit whatever the value's ok field says.
ElapsedHandlerNext(result) == "ec_credit"

\* select .. from ad_sessions where id=$1 and tg_id=$2 limit 1, the checks on
\* the row, and Date.now() - startedAt
ElapsedSelect(c) ==
  LET r == ElapsedRowCheck(calls[c].tg, calls[c].sid)
  IN /\ variant = "elapsed" /\ calls[c].pc = "ec_select"
     /\ IF r = "go" THEN Step(c, "ec_flip")
        ELSE Go(c, [calls[c] EXCEPT !.pc = ElapsedHandlerNext(r),
                                    !.pend = r])
     /\ UNCHANGED <<fresh, referrals, diaCol, dailyCol, poolMax, withdrawals, variant, now, day, balance, diamonds, referred, seen,
                    sessions, ad, paid, created, earnings, nreq, nfail>>

\* update ad_sessions set completed=true, completed_at=now()
\* where id=$1 and tg_id=$2 and completed=false returning reward_tl, ...
ElapsedFlip(c) ==
  LET s == calls[c].sid
  IN /\ variant = "elapsed" /\ calls[c].pc = "ec_flip"
     /\ IF Flippable(calls[c].tg, s)
        THEN /\ sessions' = [sessions EXCEPT ![s] = Flipped(@, now)]
             /\ Go(c, [calls[c] EXCEPT !.pc = "ec_credit", !.pend = "ok"])
        ELSE /\ Go(c, [calls[c] EXCEPT !.pc = ElapsedHandlerNext("update_failed"),
                                       !.pend = "update_failed"])
             /\ UNCHANGED sessions
     /\ UNCHANGED <<fresh, referrals, diaCol, dailyCol, poolMax, withdrawals, variant, now, day, balance, diamonds, referred, seen,
                    ad, paid, created, earnings, nreq, nfail>>

\* creditUser(tgId, Number(rewards.tl) || 0.25, Number(rewards.diamonds) || 0.25)
ElapsedCredit(c) ==
  LET s == calls[c].sid
      got == calls[c].pend = "ok"
  IN /\ variant = "elapsed" /\ calls[c].pc = "ec_credit"
     /\ CreditUser(calls[c].tg, s,
          OrDefault(IF got THEN sessions[s].reward_tl ELSE NULL,
                    WATCH_REWARD_TL),
          OrDefault(IF got THEN sessions[s].reward_gem ELSE NULL,
                    WATCH_REWARD_DIAMONDS))
     /\ Step(c, "ec_bump")
     /\ UNCHANGED <<fresh, referrals, diaCol, dailyCol, poolMax, withdrawals, variant, now, day,
                    referred, seen, sessions, ad, created, earnings, nreq,
                    nfail>>

\* bumpDailyCounter(tgId), then res.json({ ok: true, ... })
ElapsedBump(c) ==
  /\ variant = "elapsed" /\ calls[c].pc = "ec_bump"
  /\ seen' = BumpedSeen(calls[c].tg)
  /\ Return(c, "ok")
  /\ UNCHANGED <<fresh, referrals, diaCol, dailyCol, poolMax, withdrawals, variant, now, day, balance, diamonds, referred, sessions,
                 ad, paid, created, earnings, nreq, nfail>>

\* ---------------------------------------------------------------------------
\* The bot's /start command: the user row and its referrer
\* ---------------------------------------------------------------------------
FirstBotPc ==
  CASE variant = "lock" -> "lb_upsert"
    [] variant = "status" -> "sb_insert"
    [] variant = "cond" -> "cb_select"
    [] OTHER -> "tb_ensure"

\* /start sent by user u with a payload that denotes the number n (0: no
\* payload), written with leading zeros when p.
BotStartBegin(c, u, n, p) ==
  /\ FreeSlot(c) /\ nreq < MaxReqs
  /\ n = 0 => ~p
  /\ Go(c, [Idle EXCEPT !.pc = FirstBotPc, !.kind = "bot", !.tg = u,
                        !.ref = n, !.pad = p])
  /\ nreq' = nreq + 1
  /\ UNCHANGED <<fresh, referrals, diaCol, dailyCol, poolMax, withdrawals, variant, now, day,
                 balance, diamonds, referred, seen, sessions, ad, paid,
                 created, earnings, nfail>>

\* The reply to /start; the slot remembers who sent which payload.
ReturnBot(c, r) ==
  Go(c, [Idle EXCEPT !.resp = r, !.tg = calls[c].tg, !.ref = calls[c].ref,
                     !.pad = calls[c].pad])

\* coalesce(new) ignoring the stored value.
CoalesceOverwrite(old, new) == IF new # 0 THEN new ELSE old

\* SQL coalesce(old, new) of two referrer values, 0 standing for NULL.
Coalesce(old, new) == IF old = 0 THEN new ELSE old

\* part_002 bot.start: payload && /^\d{3,20}$/.test(payload) &&
\* payload !== String(tg_id) ? Number(payload) : null.  The comparison is one
\* of strings: a payload with leading zeros differs from String(tg_id).
LockPayloadRef(u, n, p) == IF n # 0 /\ ~(n = u /\ ~p) THEN n ELSE 0

\* part_002 ensureUser(tg_id, referred_by): insert ... on conflict do update
\* set referred_by = coalesce(users.referred_by, excluded.referred_by)
LockBotUpsert(c) ==
  LET u == calls[c].tg
      r == LockPayloadRef(u, calls[c].ref, calls[c].pad)
  IN /\ variant = "lock" /\ ClientFree /\ calls[c].pc = "lb_upsert"
     /\ referred' = [referred EXCEPT ![u] =
                       IF @ = NoRow THEN r ELSE Coalesce(@, r)]
     /\ ReturnBot(c, "ok")
     /\ UNCHANGED <<fresh, referrals, diaCol, dailyCol, poolMax, withdrawals, variant, now, day,
                    balance, diamonds, seen, sessions, ad, paid, created,
                    earnings, nreq, nfail>>

\* The /start handler goes on to the referrer statements.
HasOtherRef(u, n) == n # 0 /\ n # u

\* part_001 ensureUserFromTg: INSERT INTO users (.., referred_by) VALUES
\* (.., startRef || null) ON CONFLICT (tg_id) DO UPDATE SET username ..
StatusBotInsert(c) ==
  LET u == calls[c].tg
      n == calls[c].ref
  IN /\ variant = "status" /\ calls[c].pc = "sb_insert"
     /\ IF referred[u] = NoRow
        THEN /\ referred' = [referred EXCEPT ![u] = n]
             /\ fresh' = [fresh EXCEPT ![u] = TRUE]
        ELSE UNCHANGED <<referred, fresh>>
     /\ IF HasOtherRef(u, n) THEN Step(c, "sb_coalesce")
        ELSE ReturnBot(c, "ok")
     /\ UNCHANGED <<referrals, diaCol, dailyCol, poolMax, withdrawals, variant, now, day,
                    balance, diamonds, seen, sessions, ad, paid, created,
                    earnings, nreq, nfail>>

\* UPDATE users SET referred_by = COALESCE(referred_by, $2) WHERE tg_id=$1
StatusBotCoalesce(c) ==
  LET u == calls[c].tg
  IN /\ variant = "status" /\ calls[c].pc = "sb_coalesce"
     /\ referred' = [referred EXCEPT ![u] =
                       IF @ = NoRow THEN @ ELSE Coalesce(@, calls[c].ref)]
     /\ Step(c, "sb_bonus")
     /\ UNCHANGED <<fresh, referrals, diaCol, dailyCol, poolMax, withdrawals, variant, now, day,
                    balance, diamonds, seen, sessions, ad, paid, created,
                    earnings, nreq, nfail>>

\* UPDATE users u SET balance = balance + 18 WHERE tg_id=$1 AND
\* referred_by = $3 AND NOT EXISTS (.. created_at < NOW() - 5 minutes)
StatusBotBonus(c) ==
  LET u == calls[c].tg
  IN /\ variant = "status" /\ calls[c].pc = "sb_bonus"
     /\ IF referred[u] = calls[c].ref /\ fresh[u]
        THEN balance' = [balance EXCEPT ![u] = @ + REFERRAL_NEW_USER_TL]
        ELSE UNCHANGED balance
     /\ ReturnBot(c, "ok")
     /\ UNCHANGED <<fresh, referrals, diaCol, dailyCol, poolMax, withdrawals, variant, now, day,
                    diamonds, referred, seen, sessions, ad, paid, created,
                    earnings, nreq, nfail>>

\* Five minutes pass since the row of user u was created.
Age(u) ==
  /\ fresh[u]
  /\ fresh' = [fresh EXCEPT ![u] = FALSE]
  /\ UNCHANGED <<referrals, diaCol, dailyCol, poolMax, withdrawals, variant, now, day, balance,
                 diamonds, referred, seen, sessions, ad, calls, paid, created,
                 earnings, nreq, nfail>>

\* upsertUserFromCtx: select tg_id, ref_by from users where tg_id=$1
CondBotSelect(c) ==
  /\ variant = "cond" /\ calls[c].pc = "cb_select"
  /\ Step(c, IF referred[calls[c].tg] = NoRow THEN "cb_insert"
             ELSE "cb_update")
  /\ UNCHANGED <<fresh, referrals, diaCol, dailyCol, poolMax, withdrawals, variant, now, day,
                 balance, diamonds, referred, seen, sessions, ad, paid,
                 created, earnings, nreq, nfail>>

\* insert into users (tg_id, .., ref_by, balance, diamonds) values (.., $4,
\* 0, 0): fails on the key when another request has inserted the row.
CondBotInsert(c) ==
  LET u == calls[c].tg
      n == calls[c].ref
  IN /\ variant = "cond" /\ calls[c].pc = "cb_insert"
     /\ IF referred[u] # NoRow
        THEN /\ ReturnBot(c, "server_error")
             /\ UNCHANGED referred
        ELSE /\ referred' = [referred EXCEPT ![u] = n]
             /\ IF HasOtherRef(u, n) THEN Step(c, "cb_referrals")
                ELSE ReturnBot(c, "ok")
     /\ UNCHANGED <<fresh, referrals, diaCol, dailyCol, poolMax, withdrawals, variant, now, day,
                    balance, diamonds, seen, sessions, ad, paid, created,
                    earnings, nreq, nfail>>

\* insert into referrals (referrer_tg_id, referred_tg_id) values ($1,$2)
\* on conflict (referred_tg_id) do nothing
CondBotReferrals(c) ==
  LET u == calls[c].tg
  IN /\ variant = "cond" /\ calls[c].pc = "cb_referrals"
     /\ referrals' = IF \E r \in referrals : r[2] = u THEN referrals
                     ELSE referrals \cup {<<calls[c].ref, u>>}
     /\ ReturnBot(c, "ok")
     /\ UNCHANGED <<fresh, diaCol, dailyCol, poolMax, withdrawals, variant, now, day, balance,
                    diamonds, referred, seen, sessions, ad, paid, created,
                    earnings, nreq, nfail>>

\* update users set username=$2, first_name=$3 where tg_id=$1
CondBotUpdate(c) ==
  /\ variant = "cond" /\ calls[c].pc = "cb_update"
  /\ ReturnBot(c, "ok")
  /\ UNCHANGED <<fresh, referrals, diaCol, dailyCol, poolMax, withdrawals, variant, now, day,
                 balance, diamonds, referred, seen, sessions, ad, paid,
                 created, earnings, nreq, nfail>>

\* What follows ensureUser in bot.start of index.js and part_000:
\* if (refId && me && refId !== me) { .. }
AfterEnsure(rec) ==
  IF HasOtherRef(rec.tg, rec.ref) THEN [rec EXCEPT !.pc = "tb_setref"]
  ELSE [Idle EXCEPT !.resp = "ok", !.tg = rec.tg, !.ref = rec.ref,
                    !.pad = rec.pad]

\* ensureUser(ctx.from): insert into users (tg_id, ..) values (..)
\* on conflict (tg_id) do nothing
TryBotEnsure(c) ==
  LET u == calls[c].tg
  IN /\ variant \in {"try", "elapsed"} /\ calls[c].pc = "tb_ensure"
     /\ referred' = [referred EXCEPT ![u] = IF @ = NoRow THEN 0 ELSE @]
     /\ Go(c, AfterEnsure(calls[c]))
     /\ UNCHANGED <<fresh, referrals, diaCol, dailyCol, poolMax, withdrawals, variant, now, day,
                    balance, diamonds, seen, sessions, ad, paid, created,
                    earnings, nreq, nfail>>

\* update users set referrer_tg_id = $2 where tg_id = $1 and
\* (referrer_tg_id is null or referrer_tg_id=0)
TryBotSetRef(c) ==
  LET u == calls[c].tg
  IN /\ variant \in {"try", "elapsed"} /\ calls[c].pc = "tb_setref"
     /\ referred' = [referred EXCEPT ![u] =
                       IF @ = 0 THEN calls[c].ref ELSE @]
     /\ Step(c, "tb_ledger")
     /\ UNCHANGED <<fresh, referrals, diaCol, dailyCol, poolMax, withdrawals, variant, now, day,
                    balance, diamonds, seen, sessions, ad, paid, created,
                    earnings, nreq, nfail>>

\* insert into referral_earnings (tg_id, referrer_tg_id, earned_at,
\* amount_tl) values ($1, $2, now(), 0.0)
TryBotLedger(c) ==
  /\ variant \in {"try", "elapsed"} /\ calls[c].pc = "tb_ledger"
  /\ earnings' = Append(earnings,
       [referrer |-> calls[c].ref, from |-> calls[c].tg, session |-> 0,
        gems |-> 0])
  /\ ReturnBot(c, "ok")
  /\ UNCHANGED <<fresh, referrals, diaCol, dailyCol, poolMax, withdrawals, variant, now, day,
                 balance, diamonds, referred, seen, sessions, ad, paid,
                 created, nreq, nfail>>

\* ---------------------------------------------------------------------------
\* Withdrawals (src/unnamed/part_002 /api/withdraw,
\* src/unnamed/part_001 /api/withdraw/request)
\* ---------------------------------------------------------------------------

\* amount_tl of the requests: below the minimum of part_001, the minimum,
\* and twice the minimum.
WithdrawAmounts == {MIN_WITHDRAW_TL - 1, MIN_WITHDRAW_TL, 2 * MIN_WITHDRAW_TL}

\* The handler's checks of the body, made before any balance is read:
\* part_001 rejects an amount below SETTINGS.min_withdraw_tl, index.js one
\* below the setting MIN_WITHDRAW_TL, part_002 only an amount that is not
\* positive.
WithdrawBodyCheck(a) ==
  IF variant \in {"status", "cond"} /\ a < MIN_WITHDRAW_TL THEN "min_withdraw"
  ELSE IF a <= 0 THEN "bad_amount"
  ELSE "go"

FirstWithdrawPc ==
  CASE variant = "lock" -> "lw_read"
    [] variant = "status" -> "sw_read"
    [] OTHER -> "cw_select"

\* POST /api/withdraw (part_002) or /api/withdraw/request (part_001) by user
\* u for amount a.  ensureUser and "create table if not exists" of part_002
\* leave the balances as they are.
WithdrawBegin(c, u, a) ==
  /\ variant \in {"lock", "status", "cond"}
  /\ FreeSlot(c) /\ nreq < MaxReqs
  /\ IF WithdrawBodyCheck(a) = "go"
     THEN Go(c, [Idle EXCEPT !.pc = FirstWithdrawPc, !.kind = "withdraw",
                             !.tg = u, !.amt = a])
     ELSE Go(c, [Idle EXCEPT !.resp = WithdrawBodyCheck(a)])
  /\ nreq' = nreq + 1
  /\ UNCHANGED <<fresh, referrals, diaCol, dailyCol, poolMax, withdrawals, variant, now, day,
                 balance, diamonds, referred, seen, sessions, ad, paid,
                 created, earnings, nfail>>

\* if (b.balance_tl + 1e-9 < amount), if (bal < amount_tl)
Insufficient(bal, amount) == bal < amount

\* getBalances(tg_id) / SELECT balance FROM users, and the balance check.
\* The read takes no lock and the handler opens no transaction.
WithdrawRead(c) ==
  /\ calls[c].pc \in {"lw_read", "sw_read"}
  /\ variant = "lock" => ClientFree
  /\ IF Insufficient(balance[calls[c].tg], calls[c].amt)
     THEN Return(c, "insufficient_balance")
     ELSE Go(c, [calls[c] EXCEPT
                   !.pc = IF variant = "lock" THEN "lw_debit" ELSE "sw_debit",
                   !.rd = balance[calls[c].tg]])
  /\ UNCHANGED <<fresh, referrals, diaCol, dailyCol, poolMax, withdrawals, variant, now, day,
                 balance, diamonds, referred, seen, sessions, ad, paid,
                 created, earnings, nreq, nfail>>

\* creditUser(tg_id, -amount, 0) / UPDATE users SET balance = balance - $2:
\* the statement has no condition on the balance.
WithdrawDebit(c) ==
  /\ calls[c].pc \in {"lw_debit", "sw_debit"}
  /\ variant = "lock" => ClientFree
  /\ balance' = [balance EXCEPT ![calls[c].tg] = @ - calls[c].amt]
  /\ Step(c, IF variant = "lock" THEN "lw_insert" ELSE "sw_insert")
  /\ UNCHANGED <<fresh, referrals, diaCol, dailyCol, poolMax, withdrawals, variant, now, day,
                 diamonds, referred, seen, sessions, ad, paid, created,
                 earnings, nreq, nfail>>

\* insert into withdraw_requests / INSERT INTO withdrawals; part_001 then
\* answers ok, part_002 reads the balances once more first.
WithdrawInsert(c) ==
  /\ calls[c].pc \in {"lw_insert", "sw_insert"}
  /\ variant = "lock" => ClientFree
  /\ withdrawals' = Append(withdrawals,
       [tg_id |-> calls[c].tg, amount_tl |-> calls[c].amt,
        status |-> "pending", debits |-> 1, refunds |-> 0])
  /\ IF variant = "lock" THEN Step(c, "lw_reply") ELSE Return(c, "ok")
  /\ UNCHANGED <<fresh, referrals, diaCol, dailyCol, poolMax, variant, now, day, balance,
                 diamonds, referred, seen, sessions, ad, paid, created,
                 earnings, nreq, nfail>>

\* const nb = await getBalances(tg_id); res.json({ ok: true, ... })
LockWithdrawReply(c) ==
  /\ variant = "lock" /\ ClientFree /\ calls[c].pc = "lw_reply"
  /\ Return(c, "ok")
  /\ UNCHANGED <<fresh, referrals, diaCol, dailyCol, poolMax, withdrawals, variant, now, day,
                 balance, diamonds, referred, seen, sessions, ad, paid,
                 created, earnings, nreq, nfail>>

\* ---------------------------------------------------------------------------
\* POST /api/convert: diamonds to TL (src/index.js second program,
\* src/unnamed/part_002, src/unnamed/part_001)
\* ---------------------------------------------------------------------------

\* One whole diamond, in 1/10000.
OneGem == 4 * WATCH_REWARD_DIAMONDS

\* gems / diamonds of the requests.
ConvertAmounts == {OneGem, 2 * OneGem}

\* Number((gems * rate).toFixed(2))
TlFor(a) ==
  ToFixed2((a * (IF variant = "lock" THEN DIAMOND_TO_TL_PERCENT
                 ELSE GEM_TO_TL_PERCENT)) \div 100)

FirstConvertPc ==
  CASE variant = "lock" -> "lv_read"
    [] variant = "status" -> "sv_read"
    [] OTHER -> "cv_select"

\* POST /api/convert by user u for a diamonds.  The body checks, ensureUser
\* of part_002, getSetting of index.js and the BEGIN of the two builds that
\* open a transaction change nothing in the store.
ConvertBegin(c, u, a) ==
  /\ variant \in {"lock", "status", "cond"}
  /\ FreeSlot(c) /\ nreq < MaxReqs
  /\ variant = "lock" => ClientFree
  /\ Go(c, [Idle EXCEPT !.pc = FirstConvertPc, !.kind = "convert",
                        !.tg = u, !.amt = a])
  /\ nreq' = nreq + 1
  /\ UNCHANGED <<fresh, referrals, diaCol, dailyCol, poolMax, withdrawals, variant,
                 now, day, balance, diamonds, referred, seen, sessions, ad,
                 paid, created, earnings, nfail>>

\* A user-row lock that is never seen held: the requests of one user run
\* side by side.
UserRowNeverHeld(c, u) == FALSE

\* Another call holds the row lock of user u: it has run its
\* SELECT .. FOR UPDATE (index.js convert and withdraw request) or its UPDATE
\* (part_002 convert, index.js admin_withdraw_paid) inside a transaction that
\* is still open.
UserRowHeld(c, u) ==
  \E d \in Calls \ {c} :
    /\ calls[d].tg = u
    /\ calls[d].pc \in {"cv_update", "cv_insert", "cv_commit", "lv_commit",
                        "cw_sum", "cw_insert", "cw_commit",
                        "cp_mark", "cp_commit"}

\* The UPDATE of the three handlers: diamonds - amount, balance + TL.
Converted(u, a) ==
  /\ diamonds' = [diamonds EXCEPT ![u] = @ - a]
  /\ balance' = [balance EXCEPT ![u] = @ + TlFor(a)]

\* index.js: select .. from users where tg_id=$1 for update, inside the
\* transaction; insufficient_gems is thrown to the catch block's rollback.
CondConvertSelect(c) ==
  LET u == calls[c].tg
  IN /\ variant = "cond" /\ calls[c].pc = "cv_select"
     /\ ~UserRowHeld(c, u)
     /\ IF diamonds[u] < calls[c].amt THEN Return(c, "insufficient_gems")
        ELSE Step(c, "cv_update")
     /\ UNCHANGED <<fresh, referrals, diaCol, dailyCol, poolMax, withdrawals, variant,
                    now, day, balance, diamonds, referred, seen, sessions,
                    ad, paid, created, earnings, nreq, nfail>>

\* index.js: update users set diamonds = .. - $1, balance = .. + $2, inside
\* the transaction: visible to others at commit.
CondConvertUpdate(c) ==
  /\ variant = "cond" /\ calls[c].pc = "cv_update"
  /\ Step(c, "cv_insert")
  /\ UNCHANGED <<fresh, referrals, diaCol, dailyCol, poolMax, withdrawals, variant,
                 now, day, balance, diamonds, referred, seen, sessions, ad,
                 paid, created, earnings, nreq, nfail>>

\* index.js: insert into diamond_conversions
CondConvertInsert(c) ==
  /\ variant = "cond" /\ calls[c].pc = "cv_insert"
  /\ Step(c, "cv_commit")
  /\ UNCHANGED <<fresh, referrals, diaCol, dailyCol, poolMax, withdrawals, variant,
                 now, day, balance, diamonds, referred, seen, sessions, ad,
                 paid, created, earnings, nreq, nfail>>

\* index.js: commit
CondConvertCommit(c) ==
  /\ variant = "cond" /\ calls[c].pc = "cv_commit"
  /\ Converted(calls[c].tg, calls[c].amt)
  /\ Return(c, "ok")
  /\ UNCHANGED <<fresh, referrals, diaCol, dailyCol, poolMax, withdrawals, variant,
                 now, day, referred, seen, sessions, ad, paid, created,
                 earnings, nreq, nfail>>

\* part_002: getBalances(tg_id) runs through the pool, outside the
\* transaction the handler has begun on its client, and takes no lock;
\* part_001: SELECT diamonds FROM users.  Then the balance check (part_002
\* rolls its empty transaction back before it answers).
ConvertRead(c) ==
  LET u == calls[c].tg
  IN /\ calls[c].pc \in {"lv_read", "sv_read"}
     /\ variant = "lock" => ClientFree
     /\ IF diamonds[u] < calls[c].amt
        THEN Return(c, IF variant = "lock" THEN "insufficient_diamonds"
                       ELSE "insufficient_gems")
        ELSE Step(c, IF variant = "lock" THEN "lv_update" ELSE "sv_update")
     /\ UNCHANGED <<fresh, referrals, diaCol, dailyCol, poolMax, withdrawals, variant,
                    now, day, balance, diamonds, referred, seen, sessions,
                    ad, paid, created, earnings, nreq, nfail>>

\* part_002: update public.users set diamonds = .. - $2, balance_tl = .. + $3
\* on the client: it waits for the row lock and is visible at commit.
LockConvertUpdate(c) ==
  /\ variant = "lock" /\ calls[c].pc = "lv_update"
  /\ ~UserRowHeld(c, calls[c].tg)
  /\ Step(c, "lv_commit")
  /\ UNCHANGED <<fresh, referrals, diaCol, dailyCol, poolMax, withdrawals, variant,
                 now, day, balance, diamonds, referred, seen, sessions, ad,
                 paid, created, earnings, nreq, nfail>>

\* part_002: commit
LockConvertCommit(c) ==
  /\ variant = "lock" /\ calls[c].pc = "lv_commit"
  /\ Converted(calls[c].tg, calls[c].amt)
  /\ Return(c, "ok")
  /\ UNCHANGED <<fresh, referrals, diaCol, dailyCol, poolMax, withdrawals, variant,
                 now, day, referred, seen, sessions, ad, paid, created,
                 earnings, nreq, nfail>>

\* part_001: UPDATE users SET diamonds = diamonds - $2, balance = balance + $3
StatusConvertUpdate(c) ==
  /\ variant = "status" /\ calls[c].pc = "sv_update"
  /\ Converted(calls[c].tg, calls[c].amt)
  /\ Return(c, "ok")
  /\ UNCHANGED <<fresh, referrals, diaCol, dailyCol, poolMax, withdrawals, variant,
                 now, day, referred, seen, sessions, ad, paid, created,
                 earnings, nreq, nfail>>

\* ---------------------------------------------------------------------------
\* Withdraw requests of src/index.js (second program): funds are held by
\* summing the open requests, the balance is debited when the admin marks
\* the request paid
\* ---------------------------------------------------------------------------

\* A row of withdraw_requests / withdrawals.  debits and refunds count the
\* UPDATEs of users.balance made for the row (subtracting, adding back).
NewRequest(u, a, n) ==
  [tg_id |-> u, amount_tl |-> a, status |-> "pending", debits |-> n,
   refunds |-> 0]

RequestIds == 1..MaxReqs

Requested(w) == w \in 1..Len(withdrawals)

\* coalesce(sum(amount_tl),0) ... where tg_id=$1 and status in
\* ('pending','approved')
RECURSIVE OpenSumOf(_, _)
OpenSumOf(rows, u) ==
  IF rows = << >> THEN 0
  ELSE (IF Head(rows).tg_id = u /\ Head(rows).status \in {"pending", "approved"}
        THEN Head(rows).amount_tl ELSE 0)
       + OpenSumOf(Tail(rows), u)

OpenSum(u) == OpenSumOf(withdrawals, u)

\* select coalesce(balance,0) as balance from users where tg_id=$1 for update:
\* waits while another transaction holds the user's row, then holds it.
CondWithdrawSelect(c) ==
  /\ variant = "cond" /\ calls[c].pc = "cw_select"
  /\ ~UserRowHeld(c, calls[c].tg)
  /\ Go(c, [calls[c] EXCEPT !.pc = "cw_sum", !.rd = balance[calls[c].tg]])
  /\ UNCHANGED <<fresh, referrals, diaCol, dailyCol, poolMax, withdrawals, variant,
                 now, day, balance, diamonds, referred, seen, sessions, ad,
                 paid, created, earnings, nreq, nfail>>

\* The sum of the open requests;
\* if (pendingSum + amount > balance) throw new Error("insufficient_balance")
CondWithdrawSum(c) ==
  /\ variant = "cond" /\ calls[c].pc = "cw_sum"
  /\ IF OpenSum(calls[c].tg) + calls[c].amt > calls[c].rd
     THEN Return(c, "insufficient_balance")
     ELSE Step(c, "cw_insert")
  /\ UNCHANGED <<fresh, referrals, diaCol, dailyCol, poolMax, withdrawals, variant,
                 now, day, balance, diamonds, referred, seen, sessions, ad,
                 paid, created, earnings, nreq, nfail>>

\* insert into withdraw_requests ... Number(amount.toFixed(2)): the row is
\* seen by the others when the transaction commits.
CondWithdrawInsert(c) ==
  /\ variant = "cond" /\ calls[c].pc = "cw_insert"
  /\ Go(c, [calls[c] EXCEPT !.pc = "cw_commit", !.amt = ToFixed2(@)])
  /\ UNCHANGED <<fresh, referrals, diaCol, dailyCol, poolMax, withdrawals, variant,
                 now, day, balance, diamonds, referred, seen, sessions, ad,
                 paid, created, earnings, nreq, nfail>>

\* commit; res.json({ ok: true, request, ... })
CondWithdrawCommit(c) ==
  /\ variant = "cond" /\ calls[c].pc = "cw_commit"
  /\ withdrawals' = Append(withdrawals, NewRequest(calls[c].tg, calls[c].amt, 0))
  /\ Return(c, "ok")
  /\ UNCHANGED <<fresh, referrals, diaCol, dailyCol, poolMax, variant, now, day,
                 balance, diamonds, referred, seen, sessions, ad, paid,
                 created, earnings, nreq, nfail>>

\* ---------------------------------------------------------------------------
\* Admin commands on a withdraw request (src/index.js admin_withdraw_approve,
\* admin_withdraw_reject, admin_withdraw_paid; src/unnamed/part_001
\* /api/admin/withdraw/approve and /reject)
\* ---------------------------------------------------------------------------
AdminKinds == {"approve", "reject", "paid"}

FirstAdminPc(k) ==
  CASE variant = "cond" /\ k = "approve" -> "ca_approve"
    [] variant = "cond" /\ k = "reject" -> "ca_reject"
    [] variant = "cond" /\ k = "paid" -> "cp_select"
    [] variant = "status" /\ k = "approve" -> "sa_approve"
    [] OTHER -> "sr_select"

\* The admin sends command k for request w.  requireAdmin / isAdmin and the
\* parsing of the id change nothing in the store; part_001 has no paid
\* command.
AdminBegin(c, k, w) ==
  /\ variant \in {"status", "cond"}
  /\ variant = "status" => k # "paid"
  /\ FreeSlot(c) /\ nreq < MaxReqs
  /\ Go(c, [Idle EXCEPT !.pc = FirstAdminPc(k), !.kind = k, !.sid = w])
  /\ nreq' = nreq + 1
  /\ UNCHANGED <<fresh, referrals, diaCol, dailyCol, poolMax, withdrawals, variant,
                 now, day, balance, diamonds, referred, seen, sessions, ad,
                 paid, created, earnings, nfail>>

\* Another transaction holds the row lock of request w: admin_withdraw_paid
\* after its select ... for update.
RequestRowHeld(c, w) ==
  \E d \in Calls \ {c} :
    /\ calls[d].sid = w
    /\ calls[d].pc \in {"cp_debit", "cp_mark", "cp_commit"}

SetStatus(w, st) ==
  withdrawals' = [withdrawals EXCEPT ![w].status = st]

\* update withdraw_requests set status='approved' | 'rejected' where id=$1:
\* no condition on the status the row has.
CondAdminSet(c) ==
  /\ variant = "cond" /\ calls[c].pc \in {"ca_approve", "ca_reject"}
  /\ ~RequestRowHeld(c, calls[c].sid)
  /\ IF Requested(calls[c].sid)
     THEN SetStatus(calls[c].sid,
                    IF calls[c].pc = "ca_approve" THEN "approved" ELSE "rejected")
     ELSE UNCHANGED withdrawals
  /\ Return(c, "ok")
  /\ UNCHANGED <<fresh, referrals, diaCol, dailyCol, poolMax, variant, now, day,
                 balance, diamonds, referred, seen, sessions, ad, paid,
                 created, earnings, nreq, nfail>>

\* begin; select tg_id, amount_tl, status from withdraw_requests where id=$1
\* for update; not_found; if (status === "paid") throw "already_paid"
CondPaidSelect(c) ==
  /\ variant = "cond" /\ calls[c].pc = "cp_select"
  /\ ~RequestRowHeld(c, calls[c].sid)
  /\ IF ~Requested(calls[c].sid) THEN Return(c, "not_found")
     ELSE IF withdrawals[calls[c].sid].status = "paid"
          THEN Return(c, "already_paid")
     ELSE Go(c, [calls[c] EXCEPT !.pc = "cp_debit",
                                 !.ref = withdrawals[calls[c].sid].tg_id,
                                 !.amt = withdrawals[calls[c].sid].amount_tl])
  /\ UNCHANGED <<fresh, referrals, diaCol, dailyCol, poolMax, withdrawals, variant,
                 now, day, balance, diamonds, referred, seen, sessions, ad,
                 paid, created, earnings, nreq, nfail>>

\* greatest(coalesce(balance,0) - $1, 0)
Deducted(bal, amount) == IF bal - amount > 0 THEN bal - amount ELSE 0

\* update users set balance = greatest(coalesce(balance,0) - $1, 0): waits
\* for the user's row, then holds it until the commit.
CondPaidDebit(c) ==
  /\ variant = "cond" /\ calls[c].pc = "cp_debit"
  /\ ~UserRowHeld(c, calls[c].ref)
  /\ Go(c, [calls[c] EXCEPT !.pc = "cp_mark", !.tg = calls[c].ref])
  /\ UNCHANGED <<fresh, referrals, diaCol, dailyCol, poolMax, withdrawals, variant,
                 now, day, balance, diamonds, referred, seen, sessions, ad,
                 paid, created, earnings, nreq, nfail>>

\* update withdraw_requests set status='paid' where id=$1
CondPaidMark(c) ==
  /\ variant = "cond" /\ calls[c].pc = "cp_mark"
  /\ Step(c, "cp_commit")
  /\ UNCHANGED <<fresh, referrals, diaCol, dailyCol, poolMax, withdrawals, variant,
                 now, day, balance, diamonds, referred, seen, sessions, ad,
                 paid, created, earnings, nreq, nfail>>

\* commit: the two UPDATEs take effect together.
CondPaidCommit(c) ==
  /\ variant = "cond" /\ calls[c].pc = "cp_commit"
  /\ balance' = [balance EXCEPT ![calls[c].tg] = Deducted(@, calls[c].amt)]
  /\ withdrawals' = [withdrawals EXCEPT ![calls[c].sid].status = "paid",
                                        ![calls[c].sid].debits = @ + 1]
  /\ Return(c, "ok")
  /\ UNCHANGED <<fresh, referrals, diaCol, dailyCol, poolMax, variant, now, day,
                 diamonds, referred, seen, sessions, ad, paid, created,
                 earnings, nreq, nfail>>

\* part_001: UPDATE withdrawals SET status='approved' WHERE id=$1 AND
\* status='pending'
StatusAdminApprove(c) ==
  /\ variant = "status" /\ calls[c].pc = "sa_approve"
  /\ IF Requested(calls[c].sid) /\ withdrawals[calls[c].sid].status = "pending"
     THEN SetStatus(calls[c].sid, "approved")
     ELSE UNCHANGED withdrawals
  /\ Return(c, "ok")
  /\ UNCHANGED <<fresh, referrals, diaCol, dailyCol, poolMax, variant, now, day,
                 balance, diamonds, referred, seen, sessions, ad, paid,
                 created, earnings, nreq, nfail>>

\* part_001: SELECT tg_id, amount_tl FROM withdrawals WHERE id=$1 AND
\* status='pending'; no row: 404.  The read takes no lock.
StatusRejectSelect(c) ==
  /\ variant = "status" /\ calls[c].pc = "sr_select"
  /\ IF Requested(calls[c].sid) /\ withdrawals[calls[c].sid].status = "pending"
     THEN Go(c, [calls[c] EXCEPT !.pc = "sr_refund",
                                 !.tg = withdrawals[calls[c].sid].tg_id,
                                 !.amt = withdrawals[calls[c].sid].amount_tl])
     ELSE Return(c, "not_found")
  /\ UNCHANGED <<fresh, referrals, diaCol, dailyCol, poolMax, withdrawals, variant,
                 now, day, balance, diamonds, referred, seen, sessions, ad,
                 paid, created, earnings, nreq, nfail>>

\* part_001: UPDATE users SET balance = balance + $2
StatusRejectRefund(c) ==
  /\ variant = "status" /\ calls[c].pc = "sr_refund"
  /\ balance' = [balance EXCEPT ![calls[c].tg] = @ + calls[c].amt]
  /\ withdrawals' = [withdrawals EXCEPT ![calls[c].sid].refunds = @ + 1]
  /\ Step(c, "sr_mark")
  /\ UNCHANGED <<fresh, referrals, diaCol, dailyCol, poolMax, variant, now, day,
                 diamonds, referred, seen, sessions, ad, paid, created,
                 earnings, nreq, nfail>>

\* part_001: UPDATE withdrawals SET status='rejected' WHERE id=$1, whatever
\* status the row has by now.
StatusRejectMark(c) ==
  /\ variant = "status" /\ calls[c].pc = "sr_mark"
  /\ SetStatus(calls[c].sid, "rejected")
  /\ Return(c, "ok")
  /\ UNCHANGED <<fresh, referrals, diaCol, dailyCol, poolMax, variant, now, day,
                 balance, diamonds, referred, seen, sessions, ad, paid,
                 created, earnings, nreq, nfail>>

\* ---------------------------------------------------------------------------
\* A store statement fails
\* ---------------------------------------------------------------------------
Done(rec, r) == [Idle EXCEPT !.resp = r, !.late = rec.late]

\* The request after the statement at rec.pc has thrown: the handler's
\* catch block, or the helper's own, decides what happens next.
OnError(rec) ==
  CASE rec.pc \in {"lk_select", "lk_now", "lk_flip", "lk_credit", "lk_commit"}
         -> Done(rec, "server_error")      \* catch: rollback, 500
    [] rec.pc = "sc_refcredit"
         -> [rec EXCEPT !.pc = "sc_mark", !.rd = 0]          \* .catch(() => {})
    [] rec.pc \in {"cc_refread", "cc_refcredit", "cc_refledger"}
         -> Done(rec, "ok")                \* catch (_) {}: ignore referral errors
    [] rec.pc = "tr_daily"
         -> [rec EXCEPT !.pc = "tr_insert", !.rd = 0]        \* seen: 0
    [] rec.pc = "tr_insert"
         -> Done(rec, "session_create_failed")
    [] rec.pc = "tc_flip"
         -> Done(rec, "already_completed_or_not_found")
    [] rec.pc = "tc_credit"
         -> [rec EXCEPT !.pc = "tc_bump"]  \* creditUser returns false
    [] rec.pc = "tc_bump"
         -> Done(rec, "ok")
    [] rec.pc = "ec_flip"
         -> [rec EXCEPT !.pc = ElapsedHandlerNext("update_failed"),
                        !.pend = "update_failed"]
    [] rec.pc = "ec_credit"
         -> [rec EXCEPT !.pc = "ec_bump"]  \* creditUser returns false
    [] rec.pc = "ec_bump"
         -> Done(rec, "ok")
    [] rec.pc \in {"cv_select", "cv_update", "cv_insert", "cv_commit"}
         -> Done(rec, "error")             \* catch: rollback, 400 e.message
    [] rec.pc \in {"cw_select", "cw_sum", "cw_insert", "cw_commit"}
         -> Done(rec, "error")             \* catch: rollback, 400 e.message
    [] rec.pc \in {"cp_select", "cp_debit", "cp_mark", "cp_commit"}
         -> Done(rec, "error")             \* catch: rollback, reply Hata
    [] rec.pc = "sb_bonus"
         -> Done(rec, "ok")                \* .catch(() => {})
    [] rec.pc = "tb_ensure"
         -> AfterEnsure(rec)               \* every try fails: continue
    [] rec.pc = "tb_setref"
         -> [rec EXCEPT !.pc = "tb_ledger"]                  \* .catch(()=>{})
    [] rec.pc = "tb_ledger"
         -> Done(rec, "ok")                \* .catch(()=>{})
    [] OTHER
         -> Done(rec, "server_error")

\* The statement request c is about to run fails (a store error, a lost
\* connection, a crash of the transaction): it changes nothing in the store.
Fault(c) ==
  /\ nfail < MaxFaults
  /\ calls[c].pc \notin {"idle", "lk_rollback"}
  /\ Go(c, OnError(calls[c]))
  /\ nfail' = nfail + 1
  /\ UNCHANGED <<fresh, referrals, diaCol, dailyCol, poolMax, withdrawals, variant, now, day, balance, diamonds, referred, seen,
                 sessions, ad, paid, created, earnings, nreq>>

\* ---------------------------------------------------------------------------
\* Specifications
\* ---------------------------------------------------------------------------
Env ==
  \/ Tick
  \/ \E c \in Calls, u \in Watchers : StartBegin(c, u)
  \/ \E c \in Calls, u \in Users, s \in SessionIds : CompleteBegin(c, u, s)
  \/ \E c \in Calls : Fault(c)

LockSteps ==
  \/ \E c \in Calls : LockStartPick(c)
  \/ \E c \in Calls : LockStartInsert(c)
  \/ \E c \in Calls : LockSelect(c)
  \/ \E c \in Calls : LockNow(c)
  \/ \E c \in Calls : LockFlip(c)
  \/ \E c \in Calls : LockCredit(c)
  \/ \E c \in Calls : LockCommit(c)
  \/ \E c \in Calls : LockRollback(c)

StatusSteps ==
  \/ \E c \in Calls : StatusStartDaily(c)
  \/ \E c \in Calls : StatusStartPick(c)
  \/ \E c \in Calls : StatusStartInsert(c)
  \/ \E c \in Calls : StatusStartBump(c)
  \/ \E c \in Calls : StatusRead(c)
  \/ \E c \in Calls : StatusCredit(c)
  \/ \E c \in Calls : StatusRefRead(c)
  \/ \E c \in Calls : StatusRefCredit(c)
  \/ \E c \in Calls : StatusMark(c)
  \/ \E c \in Calls : StatusClick(c)

CondSteps ==
  \/ \E c \in Calls : CondStartDaily(c)
  \/ \E c \in Calls : CondStartInsert(c)
  \/ \E c \in Calls : CondFlip(c)
  \/ \E c \in Calls : CondBump(c)
  \/ \E c \in Calls : CondCredit(c)
  \/ \E c \in Calls : CondRefRead(c)
  \/ \E c \in Calls : CondRefCredit(c)
  \/ \E c \in Calls : CondRefLedger(c)

TrySteps ==
  \/ \E c \in Calls : TryStartDaily(c)
  \/ \E c \in Calls : TryStartInsert(c)
  \/ \E c \in Calls : TryFlip(c)
  \/ \E c \in Calls : TryCredit(c)
  \/ \E c \in Calls : TryBump(c)

ElapsedSteps ==
  \/ \E c \in Calls : ElapsedSelect(c)
  \/ \E c \in Calls : ElapsedFlip(c)
  \/ \E c \in Calls : ElapsedCredit(c)
  \/ \E c \in Calls : ElapsedBump(c)

\* Every build.
Next ==
  Env \/ LockSteps \/ StatusSteps \/ CondSteps \/ TrySteps \/ ElapsedSteps
Spec == Init /\ [][Next]_vars

\* One build, or two, at a time.
NextLock == Env \/ LockSteps
InitLock == Init /\ variant = "lock"
SpecLock == InitLock /\ [][NextLock]_vars

NextLockStatus == Env \/ LockSteps \/ StatusSteps
InitLockStatus ==
  Init /\ variant \in {"lock", "status"} /\ ad.max_clicks = NULL
SpecLockStatus == InitLockStatus /\ [][NextLockStatus]_vars

NextLockCond == Env \/ LockSteps \/ CondSteps
InitLockCond == Init /\ variant \in {"lock", "cond"}
SpecLockCond == InitLockCond /\ [][NextLockCond]_vars

NextLockStatusCond == Env \/ LockSteps \/ StatusSteps \/ CondSteps
InitLockStatusCond == Init /\ variant \in {"lock", "status", "cond"}
SpecLockStatusCond == InitLockStatusCond /\ [][NextLockStatusCond]_vars

NextStatusCond == Env \/ StatusSteps \/ CondSteps
InitStatusCond ==
  Init /\ variant \in {"status", "cond"} /\ ad.max_clicks = NULL
SpecStatusCond == InitStatusCond /\ [][NextStatusCond]_vars

\* The /start command of every build, from an empty users table.
InitRef ==
  /\ variant \in Variants
  /\ now = 0
  /\ day = 0
  /\ balance = [u \in Users |-> 0]
  /\ diamonds = [u \in Users |-> 0]
  /\ referred = [u \in Users |-> NoRow]
  /\ seen = [u \in Users |-> [d \in Days |-> NULL]]
  /\ created = [u \in Users |-> [d \in Days |-> 0]]
  /\ sessions = << >>
  /\ ad = [active |-> TRUE, max_clicks |-> NULL, clicks |-> 0, is_vip |-> FALSE]
  /\ calls = [c \in Calls |-> Idle]
  /\ paid = [s \in SessionIds |-> 0]
  /\ earnings = << >>
  /\ nreq = 0
  /\ nfail = 0
  /\ fresh = [u \in Users |-> FALSE]
  /\ referrals = {}
  /\ diaCol = TRUE
  /\ dailyCol = TRUE
  /\ poolMax = SparePool
  /\ withdrawals = << >>

BotSteps ==
  \/ \E c \in Calls : LockBotUpsert(c)
  \/ \E c \in Calls : StatusBotInsert(c)
  \/ \E c \in Calls : StatusBotCoalesce(c)
  \/ \E c \in Calls : StatusBotBonus(c)
  \/ \E c \in Calls : CondBotSelect(c)
  \/ \E c \in Calls : CondBotInsert(c)
  \/ \E c \in Calls : CondBotReferrals(c)
  \/ \E c \in Calls : CondBotUpdate(c)
  \/ \E c \in Calls : TryBotEnsure(c)
  \/ \E c \in Calls : TryBotSetRef(c)
  \/ \E c \in Calls : TryBotLedger(c)

NextRef ==
  \/ \E c \in Calls, u \in Users, n \in Users \cup {0}, p \in BOOLEAN :
       BotStartBegin(c, u, n, p)
  \/ \E u \in Users : Age(u)
  \/ \E c \in Calls : Fault(c)
  \/ BotSteps
SpecRef == InitRef /\ [][NextRef]_vars

\* Every build, with midnight passing.
NextDays == Next \/ NewDay
SpecDays == Init /\ [][NextDays]_vars

\* The two builds whose start handler selects an ad row, with the ads table
\* as it may be when a request comes: the ad active or not, for vip users
\* or not, with a click cap or without (part_002 has neither of the last
\* two columns).
InitAds ==
  /\ variant \in {"lock", "status"}
  /\ now = 0
  /\ day = 0
  /\ balance = [u \in Users |-> 0]
  /\ diamonds = [u \in Users |-> 0]
  /\ referred = [u \in Users |-> IF u = 1 THEN 2 ELSE 0]
  /\ seen = [u \in Users |-> [d \in Days |-> IF d # 0 THEN NULL ELSE 0]]
  /\ created = [u \in Users |-> [d \in Days |-> 0]]
  /\ sessions = << >>
  /\ \E a \in BOOLEAN, v \in VipFlags,
        m \in IF variant = "status" THEN {NULL, 1} ELSE {NULL} :
       ad = [active |-> a, max_clicks |-> m, clicks |-> 0, is_vip |-> v]
  /\ calls = [c \in Calls |-> Idle]
  /\ paid = [s \in SessionIds |-> 0]
  /\ earnings = << >>
  /\ nreq = 0
  /\ nfail = 0
  /\ fresh = [u \in Users |-> FALSE]
  /\ referrals = {}
  /\ diaCol = TRUE
  /\ dailyCol = TRUE
  /\ poolMax = SparePool
  /\ withdrawals = << >>

SpecAds == InitAds /\ [][NextLockStatus]_vars

\* The three builds that look the columns of the users table up, on a users
\* table without a daily-counter column.
InitDaily ==
  /\ variant \in {"lock", "try", "elapsed"}
  /\ now = 0
  /\ day = 0
  /\ balance = [u \in Users |-> 0]
  /\ diamonds = [u \in Users |-> 0]
  /\ referred = [u \in Users |-> IF u = 1 THEN 2 ELSE 0]
  /\ seen = [u \in Users |-> [d \in Days |-> IF d # 0 THEN NULL ELSE 0]]
  /\ created = [u \in Users |-> [d \in Days |-> 0]]
  /\ sessions = << >>
  /\ ad = [active |-> TRUE, max_clicks |-> NULL, clicks |-> 0, is_vip |-> FALSE]
  /\ calls = [c \in Calls |-> Idle]
  /\ paid = [s \in SessionIds |-> 0]
  /\ earnings = << >>
  /\ nreq = 0
  /\ nfail = 0
  /\ fresh = [u \in Users |-> FALSE]
  /\ referrals = {}
  /\ diaCol = TRUE
  /\ dailyCol = FALSE
  /\ poolMax = SparePool
  /\ withdrawals = << >>

NextDaily == Env \/ LockSteps \/ TrySteps \/ ElapsedSteps
SpecDaily == InitDaily /\ [][NextDaily]_vars

\* The three builds with a convert endpoint; user 1 holds one diamond.
OpeningDiamonds(u) == IF u = 1 THEN OneGem ELSE 0

InitConvert ==
  /\ variant \in {"lock", "status", "cond"}
  /\ now = 0
  /\ day = 0
  /\ balance = [u \in Users |-> 0]
  /\ diamonds = [u \in Users |-> OpeningDiamonds(u)]
  /\ referred = [u \in Users |-> 0]
  /\ seen = [u \in Users |-> [d \in Days |-> NULL]]
  /\ created = [u \in Users |-> [d \in Days |-> 0]]
  /\ sessions = << >>
  /\ ad = [active |-> TRUE, max_clicks |-> NULL, clicks |-> 0, is_vip |-> FALSE]
  /\ calls = [c \in Calls |-> Idle]
  /\ paid = [s \in SessionIds |-> 0]
  /\ earnings = << >>
  /\ nreq = 0
  /\ nfail = 0
  /\ fresh = [u \in Users |-> FALSE]
  /\ referrals = {}
  /\ diaCol = TRUE
  /\ dailyCol = TRUE
  /\ poolMax = SparePool
  /\ withdrawals = << >>

NextConvert ==
  \/ \E c \in Calls, u \in Users, a \in ConvertAmounts : ConvertBegin(c, u, a)
  \/ \E c \in Calls : CondConvertSelect(c)
  \/ \E c \in Calls : CondConvertUpdate(c)
  \/ \E c \in Calls : CondConvertInsert(c)
  \/ \E c \in Calls : CondConvertCommit(c)
  \/ \E c \in Calls : ConvertRead(c)
  \/ \E c \in Calls : LockConvertUpdate(c)
  \/ \E c \in Calls : LockConvertCommit(c)
  \/ \E c \in Calls : StatusConvertUpdate(c)
  \/ \E c \in Calls : Fault(c)
SpecConvert == InitConvert /\ [][NextConvert]_vars

\* The row-lock build with two pending sessions of user 1 in the store, both
\* begun at the first instant, and its complete endpoint.
PendingStore ==
  /\ variant = "lock"
  /\ now = 0
  /\ day = 0
  /\ balance = [u \in Users |-> 0]
  /\ diamonds = [u \in Users |-> 0]
  /\ referred = [u \in Users |-> IF u = 1 THEN 2 ELSE 0]
  /\ seen = [u \in Users |-> [d \in Days |-> IF d # 0 THEN NULL ELSE 0]]
  /\ created = [u \in Users |-> [d \in Days |->
                  IF u = 1 /\ d = 0 THEN 2 ELSE 0]]
  /\ sessions = [s \in 1..2 |->
                   [tg_id |-> 1, seconds |-> ClampSeconds(AD_SECONDS),
                    started_at |-> 0, completed |-> FALSE,
                    completed_at |-> NULL, reward_tl |-> 0, reward_gem |-> 0]]
  /\ ad = [active |-> TRUE, max_clicks |-> NULL, clicks |-> 0, is_vip |-> FALSE]
  /\ calls = [c \in Calls |-> Idle]
  /\ paid = [s \in SessionIds |-> 0]
  /\ earnings = << >>
  /\ nreq = 0
  /\ nfail = 0
  /\ fresh = [u \in Users |-> FALSE]
  /\ referrals = {}
  /\ diaCol = TRUE
  /\ dailyCol = TRUE
  /\ withdrawals = << >>

InitPending == PendingStore /\ poolMax = SparePool

NextPending ==
  \/ Tick
  \/ \E c \in Calls, u \in Users, s \in SessionIds : CompleteBegin(c, u, s)
  \/ \E c \in Calls : Fault(c)
  \/ \E c \in Calls : LockSelect(c)
  \/ \E c \in Calls : LockNow(c)
  \/ \E c \in Calls : LockFlip(c)
  \/ \E c \in Calls : LockCredit(c)
  \/ \E c \in Calls : LockCommit(c)
  \/ \E c \in Calls : LockRollback(c)
SpecPending == InitPending /\ [][NextPending]_vars

\* As many complete calls can be in flight as the pool has clients.
InitPendingFull == PendingStore /\ poolMax = FullPool

\* Each statement a handler awaits is answered once the store can run it,
\* and the handler then goes on: no request is left aside while its next
\* statement can run.
LockFair ==
  \A c \in Calls :
    /\ WF_vars(LockSelect(c)) /\ WF_vars(LockNow(c)) /\ WF_vars(LockFlip(c))
    /\ WF_vars(LockCredit(c)) /\ WF_vars(LockCommit(c))
    /\ WF_vars(LockRollback(c))

SpecPendingFair == InitPendingFull /\ [][NextPending]_vars /\ LockFair
SpecPendingSpareFair == InitPending /\ [][NextPending]_vars /\ LockFair

\* The daily_stats build late on a day: user 1 has completed one session
\* fewer than the limit (ads_seen = 49) and has since started two more, both
\* still pending: each start read ads_seen = 49.
DoneBefore(u) == IF u = 1 THEN DAILY_LIMIT - 1 ELSE 0

InitQueued ==
  /\ variant = "cond"
  /\ now = 0
  /\ day = 0
  /\ balance = [u \in Users |-> DoneBefore(u) * WATCH_REWARD_TL]
  /\ diamonds = [u \in Users |-> DoneBefore(u) * WATCH_REWARD_DIAMONDS]
  /\ referred = [u \in Users |-> 0]
  /\ seen = [u \in Users |-> [d \in Days |->
               IF d # 0 THEN NULL ELSE DoneBefore(u)]]
  /\ created = [u \in Users |-> [d \in Days |->
                  IF u = 1 /\ d = 0 THEN DoneBefore(u) + 2 ELSE 0]]
  /\ sessions = [s \in 1..2 |->
                   [tg_id |-> 1, seconds |-> AD_SECONDS,
                    started_at |-> 0, completed |-> FALSE,
                    completed_at |-> NULL, reward_tl |-> WATCH_REWARD_TL,
                    reward_gem |-> WATCH_REWARD_DIAMONDS]]
  /\ ad = [active |-> TRUE, max_clicks |-> NULL, clicks |-> 0, is_vip |-> FALSE]
  /\ calls = [c \in Calls |-> Idle]
  /\ paid = [s \in SessionIds |-> 0]
  /\ earnings = << >>
  /\ nreq = 0
  /\ nfail = 0
  /\ fresh = [u \in Users |-> FALSE]
  /\ referrals = {}
  /\ diaCol = TRUE
  /\ dailyCol = TRUE
  /\ poolMax = SparePool
  /\ withdrawals = << >>

NextQueued ==
  \/ Tick
  \/ \E c \in Calls, u \in Users, s \in SessionIds : CompleteBegin(c, u, s)
  \/ \E c \in Calls : Fault(c)
  \/ \E c \in Calls : CondFlip(c)
  \/ \E c \in Calls : CondBump(c)
  \/ \E c \in Calls : CondCredit(c)
  \/ \E c \in Calls : CondRefRead(c)
SpecQueued == InitQueued /\ [][NextQueued]_vars

\* The row-lock build or the elapsed-time build with one pending session of
\* user 1, started StartedAgo tenths of a second before the first instant,
\* so that the instants of the clock lie before, at and after the end of
\* its 15 s; in the elapsed-time build the users table has a diamonds
\* column or none.
InitWatched ==
  /\ variant \in {"lock", "elapsed"}
  /\ now = 0
  /\ day = 0
  /\ balance = [u \in Users |-> 0]
  /\ diamonds = [u \in Users |-> 0]
  /\ referred = [u \in Users |-> 0]
  /\ seen = [u \in Users |-> [d \in Days |-> IF d # 0 THEN NULL ELSE 0]]
  /\ created = [u \in Users |-> [d \in Days |->
                  IF u = 1 /\ d = 0 THEN 1 ELSE 0]]
  /\ sessions = << [tg_id |-> 1, seconds |-> ClampSeconds(AD_SECONDS),
                    started_at |-> 0 - StartedAgo, completed |-> FALSE,
                    completed_at |-> NULL, reward_tl |-> WATCH_REWARD_TL,
                    reward_gem |-> WATCH_REWARD_DIAMONDS] >>
  /\ ad = [active |-> TRUE, max_clicks |-> NULL, clicks |-> 0, is_vip |-> FALSE]
  /\ calls = [c \in Calls |-> Idle]
  /\ paid = [s \in SessionIds |-> 0]
  /\ earnings = << >>
  /\ nreq = 0
  /\ nfail = 0
  /\ fresh = [u \in Users |-> FALSE]
  /\ referrals = {}
  /\ diaCol \in IF variant = "elapsed" THEN BOOLEAN ELSE {TRUE}
  /\ dailyCol = TRUE
  /\ poolMax = SparePool
  /\ withdrawals = << >>

NextWatched ==
  \/ Tick
  \/ \E c \in Calls, u \in Users, s \in SessionIds : CompleteBegin(c, u, s)
  \/ \E c \in Calls : Fault(c)
  \/ \E c \in Calls : LockSelect(c)
  \/ \E c \in Calls : LockNow(c)
  \/ \E c \in Calls : LockFlip(c)
  \/ \E c \in Calls : LockCredit(c)
  \/ \E c \in Calls : LockCommit(c)
  \/ \E c \in Calls : LockRollback(c)
  \/ \E c \in Calls : ElapsedSelect(c)
  \/ \E c \in Calls : ElapsedFlip(c)
  \/ \E c \in Calls : ElapsedCredit(c)
  \/ \E c \in Calls : ElapsedBump(c)
SpecWatched == InitWatched /\ [][NextWatched]_vars

\* The status-column build after two /api/ad/start calls of user 1 on an ad
\* with max_clicks = 1 and no click yet: each start found clicks < max_clicks.
InitCapped ==
  /\ variant = "status"
  /\ now = 0
  /\ day = 0
  /\ balance = [u \in Users |-> 0]
  /\ diamonds = [u \in Users |-> 0]
  /\ referred = [u \in Users |-> IF u = 1 THEN 2 ELSE 0]
  /\ seen = [u \in Users |-> [d \in Days |->
               IF d # 0 THEN NULL ELSE IF u = 1 THEN 2 ELSE 0]]
  /\ created = [u \in Users |-> [d \in Days |->
                  IF u = 1 /\ d = 0 THEN 2 ELSE 0]]
  /\ sessions = [s \in 1..2 |-> NewSession(1, NULL, NULL, NULL)]
  /\ ad = [active |-> TRUE, max_clicks |-> 1, clicks |-> 0, is_vip |-> FALSE]
  /\ calls = [c \in Calls |-> Idle]
  /\ paid = [s \in SessionIds |-> 0]
  /\ earnings = << >>
  /\ nreq = 0
  /\ nfail = 0
  /\ fresh = [u \in Users |-> FALSE]
  /\ referrals = {}
  /\ diaCol = TRUE
  /\ dailyCol = TRUE
  /\ poolMax = SparePool
  /\ withdrawals = << >>

NextCapped ==
  \/ Tick
  \/ \E c \in Calls, u \in Users, s \in SessionIds : CompleteBegin(c, u, s)
  \/ \E c \in Calls : Fault(c)
  \/ \E c \in Calls : StatusRead(c)
  \/ \E c \in Calls : StatusCredit(c)
  \/ \E c \in Calls : StatusRefRead(c)
  \/ \E c \in Calls : StatusRefCredit(c)
  \/ \E c \in Calls : StatusMark(c)
  \/ \E c \in Calls : StatusClick(c)
SpecCapped == InitCapped /\ [][NextCapped]_vars

\* The two builds that pay a referrer at completion, with the referrer value
\* the /start command may have stored for user 1: none, another user, or
\* user 1 (a first /start carrying the user's own id).
InitStoredRef ==
  /\ variant \in {"status", "cond"}
  /\ now = 0
  /\ day = 0
  /\ balance = [u \in Users |-> 0]
  /\ diamonds = [u \in Users |-> 0]
  /\ \E r \in Users \cup {0} : referred = [u \in Users |-> IF u = 1 THEN r ELSE 0]
  /\ seen = [u \in Users |-> [d \in Days |-> IF d # 0 THEN NULL ELSE 0]]
  /\ created = [u \in Users |-> [d \in Days |-> 0]]
  /\ sessions = << >>
  /\ ad = [active |-> TRUE, max_clicks |-> NULL, clicks |-> 0, is_vip |-> FALSE]
  /\ calls = [c \in Calls |-> Idle]
  /\ paid = [s \in SessionIds |-> 0]
  /\ earnings = << >>
  /\ nreq = 0
  /\ nfail = 0
  /\ fresh = [u \in Users |-> FALSE]
  /\ referrals = {}
  /\ diaCol = TRUE
  /\ dailyCol = TRUE
  /\ poolMax = SparePool
  /\ withdrawals = << >>

SpecStoredRef == InitStoredRef /\ [][NextStatusCond]_vars

\* Values the reward columns of a stored session row hold.
SnapshotValues == {0, WATCH_REWARD_TL}

\* The two builds that probe the schema, started on a store that is already
\* there: a users table with or without a diamonds column, and one pending
\* ad_sessions row of user 1 with its reward columns.
InitStore ==
  /\ variant \in {"try", "elapsed"}
  /\ now = 0
  /\ day = 0
  /\ balance = [u \in Users |-> 0]
  /\ diamonds = [u \in Users |-> 0]
  /\ referred = [u \in Users |-> IF u = 1 THEN 2 ELSE 0]
  /\ seen = [u \in Users |-> [d \in Days |-> IF d # 0 THEN NULL ELSE 0]]
  /\ created = [u \in Users |-> [d \in Days |->
                  IF u = 1 /\ d = 0 THEN 1 ELSE 0]]
  /\ \E rtl \in SnapshotValues, rgem \in SnapshotValues :
       sessions = << [tg_id |-> 1, seconds |-> AD_SECONDS, started_at |-> 0,
                      completed |-> FALSE, completed_at |-> NULL,
                      reward_tl |-> rtl, reward_gem |-> rgem] >>
  /\ ad = [active |-> TRUE, max_clicks |-> NULL, clicks |-> 0, is_vip |-> FALSE]
  /\ calls = [c \in Calls |-> Idle]
  /\ paid = [s \in SessionIds |-> 0]
  /\ earnings = << >>
  /\ nreq = 0
  /\ nfail = 0
  /\ fresh = [u \in Users |-> FALSE]
  /\ referrals = {}
  /\ diaCol \in BOOLEAN
  /\ dailyCol = TRUE
  /\ poolMax = SparePool
  /\ withdrawals = << >>

NextStore == Env \/ TrySteps \/ ElapsedSteps
SpecStore == InitStore /\ [][NextStore]_vars

\* The two builds with a withdraw endpoint; user 1 has the minimum
\* withdrawal on the account.
OpeningBalance(u) == IF u = 1 THEN MIN_WITHDRAW_TL ELSE 0

InitWithdraw ==
  /\ variant \in {"lock", "status"}
  /\ now = 0
  /\ day = 0
  /\ balance = [u \in Users |-> OpeningBalance(u)]
  /\ diamonds = [u \in Users |-> 0]
  /\ referred = [u \in Users |-> 0]
  /\ seen = [u \in Users |-> [d \in Days |-> NULL]]
  /\ created = [u \in Users |-> [d \in Days |-> 0]]
  /\ sessions = << >>
  /\ ad = [active |-> TRUE, max_clicks |-> NULL, clicks |-> 0, is_vip |-> FALSE]
  /\ calls = [c \in Calls |-> Idle]
  /\ paid = [s \in SessionIds |-> 0]
  /\ earnings = << >>
  /\ nreq = 0
  /\ nfail = 0
  /\ fresh = [u \in Users |-> FALSE]
  /\ referrals = {}
  /\ diaCol = TRUE
  /\ dailyCol = TRUE
  /\ poolMax = SparePool
  /\ withdrawals = << >>

NextWithdraw ==
  \/ \E c \in Calls, u \in Users, a \in WithdrawAmounts : WithdrawBegin(c, u, a)
  \/ \E c \in Calls : WithdrawRead(c)
  \/ \E c \in Calls : WithdrawDebit(c)
  \/ \E c \in Calls : WithdrawInsert(c)
  \/ \E c \in Calls : LockWithdrawReply(c)
  \/ \E c \in Calls : Fault(c)
SpecWithdraw == InitWithdraw /\ [][NextWithdraw]_vars

\* Withdraw requests of index.js alone.  amount_tl of the requests: below
\* the minimum, a little over it with a fraction of a kurus, and twice the
\* minimum.  User 1 begins with twice the minimum and two kurus.
CondWithdrawAmounts ==
  {MIN_WITHDRAW_TL - 1, MIN_WITHDRAW_TL + 60, 2 * MIN_WITHDRAW_TL}

HeldBalance(u) == IF u = 1 THEN 2 * MIN_WITHDRAW_TL + 200 ELSE 0

InitRequest ==
  /\ variant = "cond"
  /\ now = 0
  /\ day = 0
  /\ balance = [u \in Users |-> HeldBalance(u)]
  /\ diamonds = [u \in Users |-> 0]
  /\ referred = [u \in Users |-> 0]
  /\ seen = [u \in Users |-> [d \in Days |-> NULL]]
  /\ created = [u \in Users |-> [d \in Days |-> 0]]
  /\ sessions = << >>
  /\ ad = [active |-> TRUE, max_clicks |-> NULL, clicks |-> 0, is_vip |-> FALSE]
  /\ calls = [c \in Calls |-> Idle]
  /\ paid = [s \in SessionIds |-> 0]
  /\ earnings = << >>
  /\ nreq = 0
  /\ nfail = 0
  /\ fresh = [u \in Users |-> FALSE]
  /\ referrals = {}
  /\ diaCol = TRUE
  /\ dailyCol = TRUE
  /\ poolMax = SparePool
  /\ withdrawals = << >>

NextRequest ==
  \/ \E c \in Calls, u \in Users, a \in CondWithdrawAmounts : WithdrawBegin(c, u, a)
  \/ \E c \in Calls : CondWithdrawSelect(c)
  \/ \E c \in Calls : CondWithdrawSum(c)
  \/ \E c \in Calls : CondWithdrawInsert(c)
  \/ \E c \in Calls : CondWithdrawCommit(c)
  \/ \E c \in Calls : Fault(c)
SpecRequest == InitRequest /\ [][NextRequest]_vars

\* The admin commands on one request of user 1 for the minimum, recorded
\* before: index.js has debited nothing yet and the balance covers it twice,
\* part_001 debited the amount when the request was made.
InitRequested ==
  /\ variant \in {"status", "cond"}
  /\ now = 0
  /\ day = 0
  /\ balance = [u \in Users |->
                  IF u = 1 /\ variant = "cond" THEN 2 * MIN_WITHDRAW_TL ELSE 0]
  /\ diamonds = [u \in Users |-> 0]
  /\ referred = [u \in Users |-> 0]
  /\ seen = [u \in Users |-> [d \in Days |-> NULL]]
  /\ created = [u \in Users |-> [d \in Days |-> 0]]
  /\ sessions = << >>
  /\ ad = [active |-> TRUE, max_clicks |-> NULL, clicks |-> 0, is_vip |-> FALSE]
  /\ calls = [c \in Calls |-> Idle]
  /\ paid = [s \in SessionIds |-> 0]
  /\ earnings = << >>
  /\ nreq = 0
  /\ nfail = 0
  /\ fresh = [u \in Users |-> FALSE]
  /\ referrals = {}
  /\ diaCol = TRUE
  /\ dailyCol = TRUE
  /\ poolMax = SparePool
  /\ withdrawals = << NewRequest(1, MIN_WITHDRAW_TL,
                                 IF variant = "cond" THEN 0 ELSE 1) >>

NextAdmin ==
  \/ \E c \in Calls, k \in AdminKinds, w \in RequestIds : AdminBegin(c, k, w)
  \/ \E c \in Calls : CondAdminSet(c)
  \/ \E c \in Calls : CondPaidSelect(c)
  \/ \E c \in Calls : CondPaidDebit(c)
  \/ \E c \in Calls : CondPaidMark(c)
  \/ \E c \in Calls : CondPaidCommit(c)
  \/ \E c \in Calls : StatusAdminApprove(c)
  \/ \E c \in Calls : StatusRejectSelect(c)
  \/ \E c \in Calls : StatusRejectRefund(c)
  \/ \E c \in Calls : StatusRejectMark(c)
  \/ \E c \in Calls : Fault(c)
SpecAdmin == InitRequested /\ [][NextAdmin]_vars

\* ---------------------------------------------------------------------------
\* Properties
\* ---------------------------------------------------------------------------

\* A complete call in flight.
Completing(c) == calls[c].kind = "complete" /\ calls[c].pc # "idle"

\* The step is one of call c.
StepOf(c) == calls'[c] # calls[c]

\* Call c returns in this step.
Returns(c) == calls[c].pc # "idle" /\ calls'[c].pc = "idle"

ZeroRewardResponse == IF variant = "lock" THEN "already" ELSE "ok_zero"

\* C1: in the row-lock and the status-column handlers, a complete call by the
\* owner that arrives after the session is completed changes no balance, no
\* click count and no session field in any of its steps, and returns the
\* success-without-reward response (already:true, resp. reward 0/0) unless a
\* store statement of that very step fails.
C1_LateCompleteChangesNothing ==
  [][\A c \in Calls :
       (variant \in {"lock", "status"} /\ Completing(c) /\ calls[c].late
        /\ StepOf(c))
       => /\ UNCHANGED <<balance, diamonds, ad, sessions>>
          /\ (Returns(c) /\ nfail' = nfail)
               => calls'[c].resp = ZeroRewardResponse]_vars

\* A late complete call has returned its zero-reward response after exactly
\* one reward was credited.
C1_Witness ==
  \E c \in Calls :
    /\ calls[c].pc = "idle" /\ calls[c].late
    /\ calls[c].resp = ZeroRewardResponse
    /\ balance[1] = WATCH_REWARD_TL
    /\ nfail = 0

\* Calls of the row-lock handler that have read session s as pending and
\* are on their way to flipping and crediting it.
LockWinners(s) ==
  {c \in Calls : Completing(c) /\ calls[c].sid = s
                 /\ calls[c].pc \in {"lk_now", "lk_flip", "lk_credit",
                                      "lk_commit"}}

RECURSIVE SumPaid(_)
SumPaid(S) ==
  IF S = {} THEN 0
  ELSE LET s == CHOOSE x \in S : TRUE IN paid[s] + SumPaid(S \ {s})

\* Sessions of user u that exist.
SessionsOf(u) == {s \in SessionIds : Exists(s) /\ sessions[s].tg_id = u}

\* C2: in the row-lock handler, as long as no store statement fails, at most
\* one call at a time is past the locked read of a session, none is once the
\* session is completed, a session is credited at most once and exactly once
\* when completed, and each balance of its owner is one reward per credited
\* session.
C2_RowLockSingleCredit ==
  (variant = "lock" /\ nfail = 0)
  => /\ \A s \in SessionIds :
          /\ paid[s] <= 1
          /\ Cardinality(LockWinners(s)) <= 1
          /\ (Exists(s) /\ sessions[s].completed)
               => (paid[s] = 1 /\ LockWinners(s) = {})
     /\ \A u \in Users :
          /\ balance[u] = WATCH_REWARD_TL * SumPaid(SessionsOf(u))
          /\ diamonds[u] = WATCH_REWARD_DIAMONDS * SumPaid(SessionsOf(u))

\* Two complete calls raced on one pending session: one returned ok, the one
\* that arrived before the flip returned already:true, one reward was paid.
C2_Witness ==
  \E c, d \in Calls :
    /\ variant = "lock" /\ nfail = 0
    /\ calls[c].pc = "idle" /\ calls[c].resp = "ok"
    /\ calls[d].pc = "idle" /\ calls[d].resp = "already" /\ ~calls[d].late
    /\ balance[1] = WATCH_REWARD_TL

\* Session s is completed.
Completed(s) == Exists(s) /\ sessions[s].completed

\* No complete call naming session s is in flight.
Quiet(s) == \A c \in Calls : ~(Completing(c) /\ calls[c].sid = s)

\* C3: in the handlers that take no row lock (read status, credit, mark;
\* conditional UPDATE), as long as no store statement fails, a session is
\* credited at most once whatever the interleaving of the complete calls on
\* it, and exactly once when it is completed and no call on it is in flight.
C3_NoLockSingleCredit ==
  (variant \in {"status", "cond", "try"} /\ nfail = 0)
  => \A s \in SessionIds :
       /\ paid[s] <= 1
       /\ (Completed(s) /\ Quiet(s)) => paid[s] = 1

\* C4: even when no store statement fails, a completed session stays
\* completed and keeps its completed_at, and every other field, in every
\* step of every handler.
C4_CompletedIsFinal ==
  [][nfail' = 0
     => \A s \in SessionIds : Completed(s) => sessions'[s] = sessions[s]]_vars

\* C5: in the handlers that validate elapsed time, even when no store
\* statement fails, no step of a complete call that the validation found too
\* early changes a balance or a session, and the call returns too_early.
C5_TooEarlyCreditsNothing ==
  [][\A c \in Calls :
       (Completing(c) /\ calls[c].pend = "too_early" /\ StepOf(c)
        /\ nfail' = 0)
       => /\ UNCHANGED <<balance, diamonds, sessions>>
          /\ Returns(c) => calls'[c].resp = "too_early"]_vars

\* Seconds session s has to be watched: its own column, or the ad's.
RequiredSeconds(s) ==
  IF sessions[s].seconds = NULL THEN AD_SECONDS ELSE sessions[s].seconds

\* C6: whatever the complete endpoint, even when no store statement fails, a
\* session that is completed and was credited has
\* completed_at - started_at >= required seconds - tolerance (the widest
\* tolerance of the builds, 0.5 s).
C6_CreditedAfterWatchTime ==
  nfail = 0
  => \A s \in SessionIds :
       (Completed(s) /\ paid[s] >= 1)
       => sessions[s].completed_at - sessions[s].started_at + LOCK_TOLERANCE
            >= RequiredSeconds(s) * 10

\* C7: in the row-lock and the status-column handlers, whenever no complete
\* call on a session is in flight, store failures included, the session is
\* completed exactly if its reward was credited.
C7_CompletedIffCredited ==
  variant \in {"lock", "status"}
  => \A s \in SessionIds : Quiet(s) => (Completed(s) <=> paid[s] >= 1)

\* The session named by call c does not exist or is another user's.
NotOwn(c) ==
  ~Exists(calls[c].sid) \/ sessions[calls[c].sid].tg_id # calls[c].tg

Rejections ==
  IF variant = "lock" THEN {"session_not_found", "not_your_session"}
  ELSE {"invalid_or_already_completed"}

\* C8: in the row-lock and the conditional-UPDATE (daily_stats) handlers, no
\* step of a complete call naming a session that does not exist or belongs
\* to another user changes a balance or a session, and the call returns
\* session_not_found / not_your_session, resp. invalid_or_already_completed,
\* unless a store statement of that very step fails.
C8_ForeignSessionRejected ==
  [][\A c \in Calls :
       (variant \in {"lock", "cond"} /\ Completing(c) /\ NotOwn(c)
        /\ StepOf(c))
       => /\ UNCHANGED <<balance, diamonds, sessions>>
          /\ (Returns(c) /\ nfail' = nfail)
               => calls'[c].resp \in Rejections]_vars

\* User 2 named the pending session of user 1 and was rejected; nothing was
\* credited.
C8_Witness ==
  \E c \in Calls :
    /\ variant \in {"lock", "cond"}
    /\ calls[c].pc = "idle"
    /\ calls[c].resp \in {"not_your_session", "invalid_or_already_completed"}
    /\ Exists(1) /\ ~sessions[1].completed
    /\ \A u \in Users : balance[u] = 0 /\ diamonds[u] = 0
    /\ \A s \in SessionIds : paid[s] = 0

\* C9: in the status-column and the daily_stats builds, a start call that
\* reads a counter at or above the daily limit returns
\* daily_limit in that step, creates no session and leaves the counter at
\* its value, unless the read itself fails.
C9_LimitRejectsStart ==
  [][\A c \in Calls :
       (/\ calls[c].pc \in {"st_daily", "cd_daily"}
        /\ SeenOf(calls[c].tg, day) >= DAILY_LIMIT
        /\ StepOf(c) /\ nfail' = nfail)
       => /\ calls'[c].pc = "idle" /\ calls'[c].resp = "daily_limit"
          /\ sessions' = sessions /\ created' = created
          /\ seen'[calls[c].tg][day] = SeenOf(calls[c].tg, day)]_vars

\* A start was rejected with daily_limit when the counter stood at the limit.
C9_Witness ==
  \E c \in Calls :
    /\ calls[c].pc = "idle" /\ calls[c].resp = "daily_limit"
    /\ seen[1][day] = DAILY_LIMIT
    /\ created[1][day] = DAILY_LIMIT

\* C10: in the status-column and the row-lock builds, even when no store
\* statement fails, whatever the
\* interleaving of the start calls, no user has more than the daily limit of
\* sessions created on one UTC day.
C10_CreatedWithinLimit ==
  (variant \in {"status", "lock"} /\ nfail = 0)
  => \A u \in Users : \A d \in Days : created[u][d] <= DAILY_LIMIT

\* C11: in the status-column, daily_stats and schema-try builds, even when
\* no store statement fails, a start call of a user who has created no
\* session on the current UTC day is not rejected with daily_limit: what was
\* watched on an earlier day does not count against a later one.
C11_NewDayStartsFromZero ==
  [][\A c \in Calls :
       (/\ variant \in {"status", "cond", "try"} /\ nfail' = 0
        /\ calls[c].kind = "start" /\ StepOf(c) /\ Returns(c)
        /\ created[calls[c].tg][day] = 0)
       => calls'[c].resp # "daily_limit"]_vars

\* No request is in flight.
AllIdle == \A c \in Calls : calls[c].pc = "idle"

\* What the referrer of user 1 has been credited: TL in the status-column
\* build, diamonds in the daily_stats build.  The referrer watches no ad.
ReferrerCredit ==
  IF variant = "status" THEN balance[referred[1]] ELSE diamonds[referred[1]]

\* The commission one completed session pays the referrer.
OngoingBonus ==
  IF variant = "status" THEN StatusBonus ELSE CondBonus(WATCH_REWARD_DIAMONDS)

\* C12: when the referred user has created and completed exactly one
\* session ever, credited once, with no request in flight and no failed
\* statement, the referrer has
\* been credited more than the ongoing commission of one session: the first
\* session also pays the signup part.
C12_FirstSessionPaysSignup ==
  (/\ variant \in {"status", "cond"} /\ nfail = 0 /\ AllIdle
   /\ created[1][0] = 1 /\ Len(sessions) = 1 /\ Completed(1)
   /\ \A s \in SessionIds : paid[s] = IF Completed(s) THEN 1 ELSE 0)
  => ReferrerCredit > OngoingBonus

\* The statements of referral processing inside complete.
ReferralPcs ==
  {"sc_refread", "sc_refcredit", "cc_refread", "cc_refcredit", "cc_refledger"}

\* C13: when a statement of referral processing fails, the step takes back
\* nothing (balances and sessions stay as they are), and if the call ends
\* there it returns success with its session completed.
C13_ReferralFailureSwallowed ==
  [][\A c \in Calls :
       (/\ variant \in {"status", "cond"} /\ calls[c].pc \in ReferralPcs
        /\ StepOf(c) /\ nfail' # nfail)
       => /\ UNCHANGED <<balance, diamonds, sessions>>
          /\ Returns(c) => (calls'[c].resp = "ok"
                            /\ Completed(calls[c].sid))]_vars

\* User u has a referrer.
HasReferrer(u) == referred[u] \notin {NoRow, 0}

\* C14: in every build, whatever the order and interleaving of the /start
\* requests and whichever statement fails, a referrer that has been set is
\* never changed again.
C14_FirstReferrerWins ==
  [][\A u \in Users : HasReferrer(u) => referred'[u] = referred[u]]_vars

\* A /start of a user carrying the id of another user as payload has been
\* answered, and the user's referrer is a different, earlier one.
C14_Witness ==
  \E c \in Calls :
    /\ calls[c].pc = "idle" /\ calls[c].resp = "ok"
    /\ HasOtherRef(calls[c].tg, calls[c].ref)
    /\ HasReferrer(calls[c].tg)
    /\ referred[calls[c].tg] # calls[c].ref

\* C15: no user's stored referrer is the user's own id.
C15_NoSelfReferral ==
  \A u \in Users : referred[u] # u

\* C16: even when no store statement fails, no two users are each other's
\* referrer.
C16_NoReferralCycle ==
  \A u, v \in Users :
    (u # v /\ nfail = 0) => ~(referred[u] = v /\ referred[v] = u)

C18_TlCreditedWithoutDiamondsColumn ==
  [][\A c \in Calls :
       (/\ variant \in {"try", "elapsed"} /\ ~diaCol /\ nfail' = 0
        /\ calls[c].pc \in {"tc_credit", "ec_credit"}
        /\ calls[c].pc = "ec_credit" => calls[c].pend = "ok"
        /\ StepOf(c))
       => /\ balance'[calls[c].tg] > balance[calls[c].tg]
          /\ diamonds' = diamonds]_vars

\* The total of the withdrawal requests of user u that were recorded.
RECURSIVE SumAmounts(_, _)
SumAmounts(rows, u) ==
  IF rows = << >> THEN 0
  ELSE (IF Head(rows).tg_id = u THEN Head(rows).amount_tl ELSE 0)
       + SumAmounts(Tail(rows), u)

\* C19: in the two withdraw handlers, which debit when the request is made,
\* whatever the interleaving of a user's requests and with no failed
\* statement, the user's TL balance is never negative and the recorded
\* withdrawals never add up to more than the balance the user began with.
C19_NoOverdraft ==
  (variant \in {"lock", "status"} /\ nfail = 0)
  => \A u \in Users :
       /\ balance[u] >= 0
       /\ SumAmounts(withdrawals, u) <= OpeningBalance(u)

\* C20: in the row-lock and the elapsed-time builds, with no failed
\* statement, a session that was completed and credited has
\* completed_at - started_at + 0.4 s >= required seconds: a complete call
\* made 14.5 s after the start of a 15 s session is not accepted.
C20_AcceptedFromToleranceOn ==
  (variant \in {"lock", "elapsed"} /\ nfail = 0)
  => \A s \in SessionIds :
       (Completed(s) /\ paid[s] >= 1)
       => sessions[s].completed_at - sessions[s].started_at
            + ELAPSED_TOLERANCE >= RequiredSeconds(s) * 10

\* C21: in the status-column build, even when no store statement fails, the
\* step of a complete call that raises the ad's click count to its
\* max_clicks leaves the ad inactive.
C21_CappedAdDeactivated ==
  [][(/\ variant = "status" /\ ad.max_clicks # NULL /\ nfail' = 0
      /\ ad'.clicks # ad.clicks /\ ad'.clicks = ad.max_clicks)
     => ~ad'.active]_vars

\* C22: in the status-column build, when the /start of a user whose row was
\* just created through another user's link reaches the bonus statement, and
\* no store statement fails, the step adds the new-user bonus to the
\* referrer's balance and leaves the new user's balance as it was.
C22_BonusGoesToReferrer ==
  [][\A c \in Calls :
       (/\ variant = "status" /\ nfail' = 0
        /\ calls[c].pc = "sb_bonus" /\ StepOf(c)
        /\ fresh[calls[c].tg] /\ referred[calls[c].tg] = calls[c].ref)
       => /\ balance'[calls[c].ref]
               = balance[calls[c].ref] + REFERRAL_NEW_USER_TL
          /\ balance'[calls[c].tg] = balance[calls[c].tg]]_vars

\* A start call in flight.
Starting(c) == calls[c].kind = "start" /\ calls[c].pc # "idle"

\* The ad is one that start call c may be given: active, of the vip kind the
\* request asks for, and below its click cap if it has one.
AdEligibleFor(c) ==
  /\ ad.active
  /\ ad.is_vip = calls[c].vip
  /\ ad.max_clicks # NULL => ad.clicks < ad.max_clicks

NoAdResponse == IF variant = "lock" THEN "no_ad" ELSE "no_ads"

\* C23: in the row-lock and the status-column builds, the step in which a
\* start call selects its ad goes on to the INSERT of the session only when
\* the ad row is active, has the vip flag of the request and is below its
\* click cap (or has none); otherwise, unless the statement itself fails,
\* the call returns the no-ad response; either way the step creates no
\* session and changes no daily counter.  A session is only ever created by
\* a start call that is past that selection.
C23_SessionOnlyForEligibleAd ==
  [][/\ \A c \in Calls :
          (/\ variant \in {"lock", "status"} /\ Starting(c) /\ StepOf(c)
           /\ calls[c].pc \in {"lk_pick", "st_pick"})
          => /\ UNCHANGED <<sessions, seen, created>>
             /\ calls'[c].pc \in {"lk_insert", "st_insert"}
                  => AdEligibleFor(c)
             /\ (~AdEligibleFor(c) /\ nfail' = nfail)
                  => (Returns(c) /\ calls'[c].resp = NoAdResponse)
     /\ (variant \in {"lock", "status"} /\ sessions' # sessions
         /\ Len(sessions') > Len(sessions))
          => \E c \in Calls : /\ StepOf(c)
                              /\ calls[c].pc \in {"lk_insert", "st_insert"}]_vars

\* A start call was answered with the no-ad response by an ad row that is
\* active but has reached its click cap, after a session on it was
\* completed.
C23_Witness ==
  \E c \in Calls :
    /\ variant = "status" /\ nfail = 0
    /\ calls[c].pc = "idle" /\ calls[c].resp = "no_ads"
    /\ ad.active /\ ~ad.is_vip /\ ad.clicks = ad.max_clicks
    /\ Len(sessions) = 1 /\ Completed(1)

\* C24: in the builds that look the users columns up, on a users table
\* without a daily-counter column: no step changes a daily count; the
\* daily read of a start call, unless the statement itself fails, reads 0
\* and lets the call go on to create its session; the counter step of a
\* complete call changes nothing and answers ok; and a start call that
\* returns without a failed statement of its own has started a session.
C24_MissingDailyColumnIsSkipped ==
  [][(variant \in {"lock", "try", "elapsed"} /\ ~dailyCol)
     => /\ seen' = seen
        /\ \A c \in Calls :
             /\ (calls[c].pc = "tr_daily" /\ StepOf(c) /\ nfail' = nfail)
                  => (calls'[c].pc = "tr_insert" /\ calls'[c].rd = 0)
             /\ (calls[c].pc \in {"tc_bump", "ec_bump"} /\ StepOf(c))
                  => (Returns(c) /\ calls'[c].resp = "ok")
             /\ (Starting(c) /\ StepOf(c) /\ Returns(c) /\ nfail' = nfail)
                  => (calls'[c].resp = "started"
                      /\ Len(sessions') = Len(sessions) + 1)]_vars

\* On a users table without a daily-counter column, in the elapsed-time
\* build and with no failed statement, a session was started, completed
\* after its watch time and credited, and both calls were answered.
C24_Witness ==
  /\ variant = "elapsed" /\ ~dailyCol /\ nfail = 0
  /\ AllIdle /\ Completed(1) /\ paid[1] = 1
  /\ balance[1] = WATCH_REWARD_TL
  /\ \E c \in Calls : calls[c].resp = "ok"

\* C25: in the three convert handlers, whatever the interleaving of a user's
\* convert calls and with no failed statement, no user's diamond balance is
\* negative.
C25_DiamondsNeverNegative ==
  (variant \in {"lock", "status", "cond"} /\ nfail = 0)
  => \A u \in Users : diamonds[u] >= 0

\* The total of the referral_earnings entries of referrer r.
RECURSIVE SumGems(_, _)
SumGems(rows, r) ==
  IF rows = << >> THEN 0
  ELSE (IF Head(rows).referrer = r THEN Head(rows).gems ELSE 0)
       + SumGems(Tail(rows), r)

\* C26: in the daily_stats build, whenever no request is in flight, the
\* referral_earnings entries of the referrer (user 2, who watches no ad, so
\* every diamond of theirs is a referral bonus) add up to the diamonds
\* credited to them.
C26_LedgerMatchesBonus ==
  (variant = "cond" /\ AllIdle) => SumGems(earnings, 2) = diamonds[2]

\* C27: in the two withdraw handlers, whenever no request is in flight,
\* also after a failed statement, what has been taken from each user's
\* balance is what the recorded withdrawal requests of that user add up to.
C27_DebitHasRequestRecord ==
  (variant \in {"lock", "status"} /\ AllIdle)
  => \A u \in Users :
       OpeningBalance(u) - balance[u] = SumAmounts(withdrawals, u)

\* The watch time of session s was over when call c began its transaction.
WatchedBy(c, s) ==
  calls[c].t0 - sessions[s].started_at + LOCK_TOLERANCE
    >= sessions[s].seconds * 10

\* C28: in the row-lock build, with two pending sessions of one user and no
\* failed statement, under every interleaving of the complete calls: no
\* session is credited twice; the user's balances are the starting balances
\* plus one reward for each credited session, two rewards once both
\* sessions are completed; and a complete call by the owner, made after the
\* watch time, that returns while its session is still pending has
\* completed it and is answered ok, whatever the calls on the other
\* session do.
C28_DifferentSessionsBothCredited ==
  [][(variant = "lock" /\ nfail' = 0)
     => /\ \A s \in SessionIds : paid'[s] <= 1
        /\ balance'[1] = WATCH_REWARD_TL * SumPaid(SessionIds)'
        /\ diamonds'[1] = WATCH_REWARD_DIAMONDS * SumPaid(SessionIds)'
        /\ (Completed(1)' /\ Completed(2)' /\ AllIdle')
             => balance'[1] = 2 * WATCH_REWARD_TL
        /\ \A c \in Calls :
             (/\ Completing(c) /\ Returns(c) /\ Exists(calls[c].sid)
              /\ sessions[calls[c].sid].tg_id = calls[c].tg
              /\ ~sessions[calls[c].sid].completed
              /\ WatchedBy(c, calls[c].sid))
             => (calls'[c].resp = "ok" /\ sessions'[calls[c].sid].completed)]_vars

\* Two complete calls for the two sessions are both past their credit and
\* before their commit: both rewards are on the balance.
C28_Witness ==
  /\ variant = "lock" /\ nfail = 0
  /\ calls[1].pc = "lk_commit" /\ calls[2].pc = "lk_commit"
  /\ calls[1].sid # calls[2].sid
  /\ calls[1].tg = 1 /\ calls[2].tg = 1
  /\ balance[1] = 2 * WATCH_REWARD_TL
  /\ diamonds[1] = 2 * WATCH_REWARD_DIAMONDS

\* C29: in the builds of part_002, part_001 and index.js (daily_stats): a
\* step of a start call leaves every TL balance, every diamond balance and
\* the ad's click count as they were; a balance changes only in a step of
\* a complete call, and then only on account of the session that call
\* names, so a session no complete call names changes no balance; a
\* complete call by the owner of an existing session is refused only
\* because its own session is already completed, because its own watch
\* time is not over (part_002), or because a statement failed, never
\* because of another session; and its locked read waits only for a call
\* holding the lock of the same session.
C29_PendingSessionIsInert ==
  [][(variant \in {"lock", "status", "cond"})
     => /\ \A c \in Calls :
             (Starting(c) /\ StepOf(c))
             => /\ balance' = balance /\ diamonds' = diamonds
                /\ ad'.clicks = ad.clicks
        /\ (balance' # balance \/ diamonds' # diamonds)
             => \E c \in Calls :
                  /\ Completing(c) /\ StepOf(c)
                  /\ \A s \in SessionIds \ {calls[c].sid} : paid'[s] = paid[s]
        /\ \A c \in Calls :
             (/\ Completing(c) /\ Returns(c) /\ Exists(calls[c].sid)
              /\ sessions[calls[c].sid].tg_id = calls[c].tg
              /\ calls'[c].resp # "ok")
             => \/ sessions[calls[c].sid].completed
                \/ variant = "lock" /\ ~WatchedBy(c, calls[c].sid)
                \/ nfail' > nfail
        /\ \A c \in Calls :
             (/\ calls[c].pc = "lk_select"
              /\ \A d \in Calls \ {c} :
                   ~(calls[d].held /\ calls[d].sid = calls[c].sid))
             => ENABLED LockSelect(c)]_vars

\* A user has two sessions: one is still pending and has paid nothing, the
\* other has been completed and paid, by a call answered ok.
C29_Witness ==
  /\ variant \in {"lock", "status", "cond"} /\ nfail = 0
  /\ \E s \in 1..Len(sessions), o \in 1..Len(sessions) :
       /\ s # o /\ sessions[s].tg_id = sessions[o].tg_id
       /\ ~sessions[s].completed /\ paid[s] = 0
       /\ sessions[o].completed /\ paid[o] = 1
       /\ balance[sessions[o].tg_id] > 0
  /\ \E c \in Calls : calls[c].pc = "idle" /\ calls[c].resp = "ok"

\* C30: in the row-lock build, under fair scheduling of the handlers'
\* statements, every complete call that has begun its transaction
\* eventually ends it and returns, also one that waits for the row lock
\* another call holds.
C30_CompleteAlwaysReturns ==
  \A c \in Calls : Completing(c) ~> (calls[c].pc = "idle")

\* C31: in the handler built on the elapsed-time completeAdSession, even
\* when no store statement fails, a step of a complete call changes a
\* balance or the daily counter only when completeAdSession returned ok, and
\* a call whose completeAdSession returned anything else is not answered ok.
C31_CreditOnlyWhenOk ==
  [][\A c \in Calls :
       (variant = "elapsed" /\ Completing(c) /\ StepOf(c) /\ nfail' = 0
        /\ calls[c].pc \in {"ec_credit", "ec_bump"} /\ calls[c].pend # "ok")
       => /\ UNCHANGED <<balance, diamonds, seen>>
          /\ Returns(c) => calls'[c].resp # "ok"]_vars

\* Sessions of user u completed and credited on the day: those before the
\* first state and those completed since.
CreditedToday(u) ==
  DoneBefore(u)
    + Cardinality({s \in 1..Len(sessions) :
                     /\ sessions[s].tg_id = u /\ sessions[s].completed
                     /\ paid[s] >= 1})

\* C32: in the build that increments the daily counter at completion, the
\* number of sessions of one user completed and credited on one day is at
\* most the daily limit, also when sessions were started before any of them
\* was completed.
C32_DailyThroughputBounded ==
  variant = "cond" => \A u \in Users : CreditedToday(u) <= DAILY_LIMIT

\* The required seconds of session s have elapsed at the time call c's
\* handler compares: the start of its transaction (part_002), the clock at
\* the step (part_000).
DueFor(c, s) ==
  (IF variant = "lock" THEN calls[c].t0 ELSE now) - sessions[s].started_at
    >= sessions[s].seconds * 10

\* C33: in the row-lock and the elapsed-time builds, when no store statement
\* fails, a complete call by the owner of a session whose required seconds
\* have elapsed is not turned away as too early, and a complete call by the
\* owner that its handler did not turn away returns success with the
\* session completed and the watcher credited.
C33_DueCompleteSucceeds ==
  [][\A c \in Calls :
       (/\ variant \in {"lock", "elapsed"} /\ nfail' = 0
        /\ Completing(c) /\ StepOf(c) /\ Exists(calls[c].sid)
        /\ sessions[calls[c].sid].tg_id = calls[c].tg)
       => /\ (calls[c].pc \in {"lk_now", "ec_select"} /\ DueFor(c, calls[c].sid))
               => calls'[c].pend # "too_early"
          /\ (Returns(c) /\ calls[c].pend \in {"none", "ok"})
               => /\ calls'[c].resp = "ok"
                  /\ sessions'[calls[c].sid].completed
                  /\ paid'[calls[c].sid] >= 1]_vars

\* C34: in the status-column build, also when no store statement fails and
\* no session is credited twice, an ad with a max_clicks has
\* clicks <= max_clicks.
C34_ClicksWithinCap ==
  (variant = "status" /\ nfail = 0 /\ \A s \in SessionIds : paid[s] <= 1
   /\ ad.max_clicks # NULL)
  => ad.clicks <= ad.max_clicks

\* C35: in the two builds that pay a referrer at completion, also when no
\* store statement fails, the step of a complete call that credits the
\* referral bonus leaves the watcher's own balances as they were, whatever
\* referrer is stored for the watcher.
C35_NoSelfReferralBonus ==
  [][\A c \in Calls :
       (/\ variant \in {"status", "cond"} /\ nfail' = 0
        /\ Completing(c) /\ StepOf(c)
        /\ calls[c].pc \in {"sc_refcredit", "cc_refcredit"})
       => /\ balance'[calls[c].tg] = balance[calls[c].tg]
          /\ diamonds'[calls[c].tg] = diamonds[calls[c].tg]]_vars

\* C36: in the status-column build, whatever /start commands are repeated
\* and also when no store statement fails, the new-user bonus a user has
\* been given in total is at most one bonus (the /start command is the only
\* request here, so a balance holds nothing but bonuses).
C36_NewUserBonusOnce ==
  (variant = "status" /\ nfail = 0 /\ sessions = << >>)
  => \A u \in Users : balance[u] <= REFERRAL_NEW_USER_TL

\* C37: in the index.js handler that holds funds by summing the open
\* requests under the lock of the user's row, right after every accepted
\* withdraw request the amounts of the user's pending and approved requests
\* add up to no more than the user's TL balance, however the requests of one
\* user interleave.
C37_OpenRequestsWithinBalance ==
  [][\A c \in Calls :
       (variant = "cond" /\ calls[c].kind = "withdraw" /\ Returns(c)
          /\ calls'[c].resp = "ok")
       => OpenSumOf(withdrawals', calls[c].tg) <= balance'[calls[c].tg]]_vars

\* Two requests of user 1 were accepted and together hold the whole balance.
C37_Witness ==
  /\ variant = "cond"
  /\ Len(withdrawals) = 2
  /\ \A w \in 1..Len(withdrawals) : withdrawals[w].tg_id = 1
  /\ OpenSum(1) = balance[1]
  /\ \E c \in Calls : calls[c].resp = "ok"

\* C38: in index.js, whatever the sequence and interleaving of the admin
\* commands approve, reject and paid on one withdraw request, the amount of
\* the request is deducted from the user's balance at most once: once it was
\* marked paid, no later command deducts it again.
C38_DeductedAtMostOnce ==
  variant = "cond"
  => \A w \in 1..Len(withdrawals) :
       /\ withdrawals[w].debits <= 1
       /\ balance[withdrawals[w].tg_id]
            >= 2 * MIN_WITHDRAW_TL - withdrawals[w].amount_tl

\* C39: in part_001, a withdrawal whose amount was debited when it was
\* requested is refunded at most once, and only if it ends rejected: no
\* interleaving of the admin's reject and approve calls on it, with no failed
\* statement, refunds it twice or refunds a withdrawal that ends approved.
C39_RefundedOnceIfRejected ==
  (variant = "status" /\ nfail = 0)
  => \A w \in 1..Len(withdrawals) :
       /\ withdrawals[w].refunds <= 1
       /\ (withdrawals[w].refunds > 0 /\ \A c \in Calls : calls[c].pc = "idle")
          => withdrawals[w].status = "rejected"

====
